---- MODULE Spec2Model ----
(***************************************************************************)
(* A model of the CMMN parser library: the CMMNParser facade with its      *)
(* split-bucket XML walk (cmmn_parser/parser.py), the XMLParser and        *)
(* JSONParser tree builders (xml_parser.py, json_parser.py) and the        *)
(* CMMNDefinitions serializer (models.py).                                 *)
(*                                                                         *)
(* Python values are tagged records: None, Str(s), Bool(b), List(q),       *)
(* Dict(f); an instance of a model class is a record whose field t is the  *)
(* class name; a raised exception is Raise(exc, msg).  Python strings are  *)
(* TLA+ strings and the string methods are computed character by           *)
(* character.  A document text is a sequence of lexical tokens.            *)
(***************************************************************************)
EXTENDS Integers, Sequences, FiniteSets, TLC

VARIABLES pc, call, trace, outcome, json_schema, mapping, reparsed

vars == <<pc, call, trace, outcome, json_schema, mapping, reparsed>>

(* ------------------------------ bounds --------------------------------- *)

\* Longest document text, in lexical tokens.
MaxTextLen == 2

\* Most child elements generated under one container element.
MaxKids == 2

(* --------------------------- Python values ----------------------------- *)

None == [t |-> "None"]

Str(s) == [t |-> "str", v |-> s]

Bool(b) == [t |-> "bool", v |-> b]

List(q) == [t |-> "list", v |-> q]

Dict(f) == [t |-> "dict", v |-> f]

Raise(exc, msg) == [t |-> "raise", exc |-> exc, msg |-> msg]

IsRaise(v) == v.t = "raise"

\* The empty mapping (no attribute, no key).
Empty == [n \in {} |-> ""]

(* --------------------------- string methods ---------------------------- *)

Upper26 == "ABCDEFGHIJKLMNOPQRSTUVWXYZ"

Lower26 == "abcdefghijklmnopqrstuvwxyz"

\* str.lower() on one character.
LowerChar(c) ==
    IF \E i \in 1..Len(Upper26) : SubSeq(Upper26, i, i) = c
    THEN LET i == CHOOSE i \in 1..Len(Upper26) : SubSeq(Upper26, i, i) = c
         IN SubSeq(Lower26, i, i)
    ELSE c

RECURSIVE Lower(_)
\* str.lower()
Lower(s) ==
    IF Len(s) = 0 THEN ""
    ELSE LowerChar(SubSeq(s, 1, 1)) \o Lower(SubSeq(s, 2, Len(s)))

\* The characters str.split() and str.strip() treat as whitespace.
IsSpace(c) == c \in {" ", "\t", "\n", "\r"}

\* str.startswith(p)
StartsWith(s, p) == Len(s) >= Len(p) /\ SubSeq(s, 1, Len(p)) = p

\* str.endswith(p)
EndsWith(s, p) == Len(s) >= Len(p) /\ SubSeq(s, Len(s) - Len(p) + 1, Len(s)) = p

RECURSIVE SplitFrom(_, _, _)
\* str.split() from position i on, cur being the token under construction.
SplitFrom(s, i, cur) ==
    IF i > Len(s) THEN (IF cur = "" THEN <<>> ELSE <<cur>>)
    ELSE LET c == SubSeq(s, i, i)
         IN IF IsSpace(c)
            THEN (IF cur = "" THEN <<>> ELSE <<cur>>) \o SplitFrom(s, i + 1, "")
            ELSE SplitFrom(s, i + 1, cur \o c)

\* str.split(): the maximal runs of non-whitespace characters, in order.
Split(s) == SplitFrom(s, 1, "")

(* ------------------------------ XML trees ------------------------------ *)

CMMN_NAMESPACE == "http://www.omg.org/spec/CMMN/20151109/MODEL"

\* An element: tag in Clark notation, attributes, text, child elements.
El(tag, attrib, text, children) ==
    [t |-> "Element", tag |-> tag, attrib |-> attrib, text |-> text,
     children |-> children]

\* The tag of a local name in the CMMN namespace.
Q(local) == "{" \o CMMN_NAMESPACE \o "}" \o local

\* Element.get(name, default): attribute values are strings.
Get(e, name, default) ==
    IF name \in DOMAIN e.attrib THEN Str(e.attrib[name]) ELSE default

\* Element.get(name, default) where both the value and the default are str.
GetS(e, name, default) ==
    IF name \in DOMAIN e.attrib THEN e.attrib[name] ELSE default

\* Element.findall("cmmn:<local>", namespaces): the direct children with
\* exactly that qualified tag, in document order.
FindAll(e, local) == SelectSeq(e.children, LAMBDA c : c.tag = Q(local))

\* Element.find(...): the first match, or None.
Find(e, local) ==
    LET m == FindAll(e, local) IN IF m = <<>> THEN None ELSE m[1]

\* Element.text as a Python value.
TextOf(e) == e.text

\* [f(x) for x in q]
Map(q, f(_)) == [i \in 1..Len(q) |-> f(q[i])]

(* ------------- CMMNParser: the split-bucket XML walk ------------------- *)

\* RefList with the split left out: the attribute kept as one reference.
RefList_unsplit(e, name) ==
    LET refs == GetS(e, name, "")
    IN IF refs # "" THEN List(<<Str(refs)>>) ELSE List(<<>>)

\* A space-separated reference attribute: "" (or absent) leaves the default
\* empty list, anything else is split on whitespace.
RefList(e, name) ==
    LET refs == GetS(e, name, "")
    IN IF refs # "" THEN List(Map(Split(refs), Str)) ELSE List(<<>>)

\* <rule>/<condition> text of an itemControl, None when either is missing.
RuleCondition(control_elem, rule) ==
    LET r == Find(control_elem, rule)
    IN IF r = None THEN None
       ELSE LET condition == Find(r, "condition")
            IN IF condition = None THEN None ELSE TextOf(condition)

RECURSIVE CMMNParser_parse_case_file_item(_)
\* _parse_case_file_item assigning each child to item.children instead of
\* appending it.
CMMNParser_parse_case_file_item_assigning(item_elem) ==
    LET child_elems == FindAll(item_elem, "caseFileItem")
    IN [t |-> "CaseFileItem",
        id |-> Get(item_elem, "id", Str("")),
        name |-> Get(item_elem, "name", None),
        documentation |-> None,
        definition_type |-> Get(item_elem, "definitionType", None),
        multiplicity |-> Get(item_elem, "multiplicity", None),
        source_ref |-> Get(item_elem, "sourceRef", None),
        target_refs |-> RefList(item_elem, "targetRefs"),
        children |->
            List(IF child_elems = <<>> THEN <<>>
                 ELSE <<CMMNParser_parse_case_file_item(
                            child_elems[Len(child_elems)])>>)]

CMMNParser_parse_case_file_item(item_elem) ==
    [t |-> "CaseFileItem",
     id |-> Get(item_elem, "id", Str("")),
     name |-> Get(item_elem, "name", None),
     documentation |-> None,
     definition_type |-> Get(item_elem, "definitionType", None),
     multiplicity |-> Get(item_elem, "multiplicity", None),
     source_ref |-> Get(item_elem, "sourceRef", None),
     target_refs |-> RefList(item_elem, "targetRefs"),
     children |-> List(Map(FindAll(item_elem, "caseFileItem"),
                           LAMBDA c : CMMNParser_parse_case_file_item(c)))]

CMMNParser_parse_case_file_model(file_model_elem) ==
    [t |-> "CaseFileModel",
     id |-> Get(file_model_elem, "id", Str("")),
     case_file_items |-> List(Map(FindAll(file_model_elem, "caseFileItem"),
                                  CMMNParser_parse_case_file_item))]

CMMNParser_parse_item_control(control_elem) ==
    [t |-> "ItemControl",
     required_rule |-> RuleCondition(control_elem, "requiredRule"),
     repetition_rule |-> RuleCondition(control_elem, "repetitionRule"),
     manual_activation_rule |-> RuleCondition(control_elem, "manualActivationRule")]

CMMNParser_parse_plan_item(plan_item_elem) ==
    LET item_control_elem == Find(plan_item_elem, "itemControl")
    IN [t |-> "PlanItem",
        id |-> Get(plan_item_elem, "id", Str("")),
        name |-> Get(plan_item_elem, "name", None),
        documentation |-> None,
        definition_ref |-> Get(plan_item_elem, "definitionRef", None),
        entry_criteria |-> RefList(plan_item_elem, "entryCriteriaRefs"),
        exit_criteria |-> RefList(plan_item_elem, "exitCriteriaRefs"),
        reactivation_criteria |-> List(<<>>),
        item_control |-> IF item_control_elem = None THEN None
                         ELSE CMMNParser_parse_item_control(item_control_elem)]

CMMNParser_parse_on_part(on_part_elem) ==
    LET standard_event == Find(on_part_elem, "standardEvent")
    IN [t |-> "OnPart",
        id |-> Get(on_part_elem, "id", Str("")),
        source_ref |-> Get(on_part_elem, "sourceRef", None),
        standard_event |-> IF standard_event = None THEN None
                           ELSE TextOf(standard_event)]

CMMNParser_parse_sentry(sentry_elem) ==
    LET if_part_elem == Find(sentry_elem, "ifPart")
        condition == Find(if_part_elem, "condition")
    IN [t |-> "Sentry",
        id |-> Get(sentry_elem, "id", Str("")),
        name |-> Get(sentry_elem, "name", None),
        documentation |-> None,
        on_parts |-> List(Map(FindAll(sentry_elem, "onPart"),
                              CMMNParser_parse_on_part)),
        if_part |-> IF if_part_elem = None THEN None
                    ELSE [t |-> "IfPart",
                          id |-> Get(if_part_elem, "id", Str("")),
                          condition |-> IF condition = None THEN None
                                        ELSE TextOf(condition)]]

\* Stage(...) / CasePlanModel(...): every collection starts empty.
NewStage(cls, e) ==
    [t |-> cls,
     id |-> Get(e, "id", Str("")),
     name |-> Get(e, "name", None),
     documentation |-> None,
     auto_complete |-> Bool(Lower(GetS(e, "autoComplete", "false")) = "true"),
     plan_items |-> List(<<>>),
     sentries |-> List(<<>>),
     case_file_items |-> List(<<>>),
     task_definitions |-> List(<<>>),
     event_definitions |-> List(<<>>),
     milestone_definitions |-> List(<<>>),
     stage_definitions |-> List(<<>>),
     criteria_definitions |-> List(<<>>)]

\* list.append of every element of q, in order.
Extend(lst, q) == List(lst.v \o q)

CMMNParser_parse_stage_content(stage_elem, stage) ==
    [stage EXCEPT
        !.plan_items = Extend(@, Map(FindAll(stage_elem, "planItem"),
                                     CMMNParser_parse_plan_item)),
        !.sentries = Extend(@, Map(FindAll(stage_elem, "sentry"),
                                   CMMNParser_parse_sentry)),
        !.case_file_items = Extend(@, Map(FindAll(stage_elem, "caseFileItem"),
                                          CMMNParser_parse_case_file_item))]

\* One humanTask / processTask / caseTask element.
CMMNParser_task(cls, ref_field, ref_attr, task_elem) ==
    [f \in {"t", "id", "name", "documentation", "is_blocking", ref_field} |->
        CASE f = "t" -> cls
          [] f = "id" -> Get(task_elem, "id", Str(""))
          [] f = "name" -> Get(task_elem, "name", None)
          [] f = "documentation" -> None
          [] f = "is_blocking" ->
                Bool(Lower(GetS(task_elem, "isBlocking", "true")) = "true")
          [] OTHER -> Get(task_elem, ref_attr, None)]

RECURSIVE CMMNParser_parse_task_definitions(_, _)
CMMNParser_parse_task_definitions(parent_elem, stage) ==
    [stage EXCEPT
        !.task_definitions = Extend(@,
            Map(FindAll(parent_elem, "humanTask"),
                LAMBDA e : CMMNParser_task("HumanTask", "performer", "performer", e))
            \o Map(FindAll(parent_elem, "processTask"),
                LAMBDA e : CMMNParser_task("ProcessTask", "process_ref", "processRef", e))
            \o Map(FindAll(parent_elem, "caseTask"),
                LAMBDA e : CMMNParser_task("CaseTask", "case_ref", "caseRef", e))),
        !.stage_definitions = Extend(@,
            Map(FindAll(parent_elem, "stage"),
                LAMBDA stage_elem :
                    CMMNParser_parse_task_definitions(stage_elem,
                        CMMNParser_parse_stage_content(stage_elem,
                            NewStage("Stage", stage_elem)))))]

CMMNParser_parse_event_definitions(parent_elem, stage) ==
    [stage EXCEPT
        !.event_definitions = Extend(@,
            Map(FindAll(parent_elem, "timerEventListener"),
                LAMBDA event_elem :
                    LET timer_expr_elem == Find(event_elem, "timerExpression")
                    IN [t |-> "TimerEventListener",
                        id |-> Get(event_elem, "id", Str("")),
                        name |-> Get(event_elem, "name", None),
                        documentation |-> None,
                        timer_expression |-> IF timer_expr_elem = None THEN None
                                             ELSE TextOf(timer_expr_elem)])
            \o Map(FindAll(parent_elem, "userEventListener"),
                LAMBDA event_elem :
                    [t |-> "UserEventListener",
                     id |-> Get(event_elem, "id", Str("")),
                     name |-> Get(event_elem, "name", None),
                     documentation |-> None,
                     authorized_role_refs |->
                         RefList(event_elem, "authorizedRoleRefs")]))]

CMMNParser_parse_milestone_definitions(parent_elem, stage) ==
    [stage EXCEPT
        !.milestone_definitions = Extend(@,
            Map(FindAll(parent_elem, "milestone"),
                LAMBDA e : [t |-> "Milestone",
                            id |-> Get(e, "id", Str("")),
                            name |-> Get(e, "name", None),
                            documentation |-> None]))]

\* One entryCriterion / exitCriterion element.
CMMNParser_criterion(cls, criterion_elem) ==
    [t |-> cls,
     id |-> Get(criterion_elem, "id", Str("")),
     name |-> Get(criterion_elem, "name", None),
     documentation |-> None,
     sentry_ref |-> Get(criterion_elem, "sentryRef", None)]

CMMNParser_parse_criteria_definitions(parent_elem, stage) ==
    [stage EXCEPT
        !.criteria_definitions = Extend(@,
            Map(FindAll(parent_elem, "entryCriterion"),
                LAMBDA e : CMMNParser_criterion("EntryCriterion", e))
            \o Map(FindAll(parent_elem, "exitCriterion"),
                LAMBDA e : CMMNParser_criterion("ExitCriterion", e)))]

CMMNParser_parse_case_plan_model(plan_model_elem) ==
    CMMNParser_parse_criteria_definitions(plan_model_elem,
      CMMNParser_parse_milestone_definitions(plan_model_elem,
        CMMNParser_parse_event_definitions(plan_model_elem,
          CMMNParser_parse_task_definitions(plan_model_elem,
            CMMNParser_parse_stage_content(plan_model_elem,
              NewStage("CasePlanModel", plan_model_elem))))))

\* findall("cmmn:caseRoles/cmmn:role"): the role children of every caseRoles
\* child, in document order.
RECURSIVE Flatten(_)
Flatten(qq) == IF qq = <<>> THEN <<>> ELSE Head(qq) \o Flatten(Tail(qq))

CMMNParser_parse_case(case_elem) ==
    LET case_file_model_elem == Find(case_elem, "caseFileModel")
        case_plan_model_elem == Find(case_elem, "casePlanModel")
        role_elems == Flatten(Map(FindAll(case_elem, "caseRoles"),
                                  LAMBDA r : FindAll(r, "role")))
    IN [t |-> "Case",
        id |-> Get(case_elem, "id", Str("")),
        name |-> Get(case_elem, "name", None),
        documentation |-> None,
        case_file_model |-> IF case_file_model_elem = None THEN None
                            ELSE CMMNParser_parse_case_file_model(case_file_model_elem),
        case_plan_model |-> IF case_plan_model_elem = None THEN None
                            ELSE CMMNParser_parse_case_plan_model(case_plan_model_elem),
        case_roles |-> List(Map(role_elems,
                                LAMBDA e : [t |-> "Role",
                                            id |-> Get(e, "id", Str("")),
                                            name |-> Get(e, "name", None)]))]

\* _parse_xml_tree on the root element of a parsed document.
CMMNParser_parse_xml_tree(root) ==
    IF root.tag # Q("definitions")
    THEN Raise("CMMNParseError", "Root element must be 'definitions'")
    ELSE [t |-> "CMMNDefinition",
          target_namespace |-> Get(root, "targetNamespace", None),
          expression_language |-> Get(root, "expressionLanguage", None),
          exporter |-> Get(root, "exporter", None),
          exporter_version |-> Get(root, "exporterVersion", None),
          cases |-> List(Map(FindAll(root, "case"), CMMNParser_parse_case))]

(* ------------------- decoded JSON values (json.loads) ------------------ *)

Num(n) == [t |-> "int", v |-> n]

MinOf(S) == CHOOSE x \in S : \A y \in S : x <= y

\* data[key] with a string key.
Item(data, key) ==
    IF data.t = "dict"
    THEN IF key \in DOMAIN data.v THEN data.v[key] ELSE Raise("KeyError", key)
    ELSE Raise("TypeError", "subscript")

\* data.get(key, default).
GetKey(data, key, default) ==
    IF data.t = "dict"
    THEN IF key \in DOMAIN data.v THEN data.v[key] ELSE default
    ELSE Raise("AttributeError", "get")

\* `key in data`; every caller has subscripted or .get-ed data before, so a
\* value that is not a mapping never reaches the test.
In(data, key) == data.t = "dict" /\ key \in DOMAIN data.v

RECURSIVE KeySeq(_)
KeySeq(S) ==
    IF S = {} THEN <<>>
    ELSE LET k == CHOOSE k \in S : TRUE IN <<Str(k)>> \o KeySeq(S \ {k})

\* iter(data): the elements of a list, the keys of a mapping, the characters
\* of a string; anything else is not iterable.
Iter(data) ==
    CASE data.t = "list" -> data
      [] data.t = "dict" -> List(KeySeq(DOMAIN data.v))
      [] data.t = "str" ->
            List([i \in 1..Len(data.v) |-> Str(SubSeq(data.v, i, i))])
      [] OTHER -> Raise("TypeError", "not iterable")

\* The first exception among values computed in order, else "none".
FirstRaise(q) ==
    LET bad == {i \in 1..Len(q) : IsRaise(q[i])}
    IN IF bad = {} THEN None ELSE q[MinOf(bad)]

\* [parser(x) for x in data]
MapList(data, parser(_)) ==
    LET it == Iter(data)
    IN IF IsRaise(it) THEN it
       ELSE LET rs == Map(it.v, parser)
            IN IF FirstRaise(rs) = None THEN List(rs) ELSE FirstRaise(rs)

\* cls(name1=value1, ...): the keyword values are computed in order and the
\* first exception propagates.
Obj(cls, fields) ==
    LET vals == [i \in 1..Len(fields) |-> fields[i][2]]
    IN IF FirstRaise(vals) # None THEN FirstRaise(vals)
       ELSE [f \in {"t"} \cup {fields[i][1] : i \in 1..Len(fields)} |->
                IF f = "t" THEN cls
                ELSE fields[CHOOSE i \in 1..Len(fields) : fields[i][1] = f][2]]

\* [parser(x) for x in data[key]] if key in data, else the default list.
OptList(data, key, parser(_)) ==
    IF In(data, key) THEN MapList(Item(data, key), parser) ELSE List(<<>>)

(* ------------- CMMNParser: the JSON builder (parser.py) ---------------- *)

CMMNParser_parse_json_role(data) ==
    Obj("Role", << <<"id", Item(data, "id")>>,
                   <<"name", GetKey(data, "name", None)>> >>)

RECURSIVE CMMNParser_parse_json_case_file_item(_)
CMMNParser_parse_json_case_file_item(data) ==
    Obj("CaseFileItem",
        << <<"id", Item(data, "id")>>,
           <<"name", GetKey(data, "name", None)>>,
           <<"documentation", GetKey(data, "documentation", None)>>,
           <<"definition_type", GetKey(data, "definitionType", None)>>,
           <<"multiplicity", GetKey(data, "multiplicity", None)>>,
           <<"source_ref", GetKey(data, "sourceRef", None)>>,
           <<"target_refs", GetKey(data, "targetRefs", List(<<>>))>>,
           <<"children",
             OptList(data, "children", CMMNParser_parse_json_case_file_item)>> >>)

CMMNParser_parse_json_case_file_model(data) ==
    Obj("CaseFileModel",
        << <<"id", Item(data, "id")>>,
           <<"case_file_items",
             OptList(data, "caseFileItems",
                     CMMNParser_parse_json_case_file_item)>> >>)

CMMNParser_parse_json_item_control(data) ==
    Obj("ItemControl",
        << <<"required_rule", GetKey(data, "requiredRule", None)>>,
           <<"repetition_rule", GetKey(data, "repetitionRule", None)>>,
           <<"manual_activation_rule",
             GetKey(data, "manualActivationRule", None)>> >>)

CMMNParser_parse_json_plan_item(data) ==
    Obj("PlanItem",
        << <<"id", Item(data, "id")>>,
           <<"name", GetKey(data, "name", None)>>,
           <<"documentation", GetKey(data, "documentation", None)>>,
           <<"definition_ref", GetKey(data, "definitionRef", None)>>,
           <<"entry_criteria", GetKey(data, "entryCriteria", List(<<>>))>>,
           <<"exit_criteria", GetKey(data, "exitCriteria", List(<<>>))>>,
           <<"reactivation_criteria",
             GetKey(data, "reactivationCriteria", List(<<>>))>>,
           <<"item_control",
             IF In(data, "itemControl")
             THEN CMMNParser_parse_json_item_control(Item(data, "itemControl"))
             ELSE None>> >>)

CMMNParser_parse_json_on_part(data) ==
    Obj("OnPart",
        << <<"id", Item(data, "id")>>,
           <<"source_ref", GetKey(data, "sourceRef", None)>>,
           <<"standard_event", GetKey(data, "standardEvent", None)>> >>)

CMMNParser_parse_json_if_part(data) ==
    Obj("IfPart", << <<"id", Item(data, "id")>>,
                     <<"condition", GetKey(data, "condition", None)>> >>)

CMMNParser_parse_json_sentry(data) ==
    Obj("Sentry",
        << <<"id", Item(data, "id")>>,
           <<"name", GetKey(data, "name", None)>>,
           <<"documentation", GetKey(data, "documentation", None)>>,
           <<"on_parts",
             OptList(data, "onParts", CMMNParser_parse_json_on_part)>>,
           <<"if_part",
             IF In(data, "ifPart")
             THEN CMMNParser_parse_json_if_part(Item(data, "ifPart"))
             ELSE None>> >>)

\* base_attrs of a task, an event listener or a milestone.
BaseAttrs(data) ==
    << <<"id", Item(data, "id")>>,
       <<"name", GetKey(data, "name", None)>>,
       <<"documentation", GetKey(data, "documentation", None)>> >>

CMMNParser_parse_json_task(data) ==
    LET base_attrs == BaseAttrs(data) \o
            << <<"is_blocking", GetKey(data, "isBlocking", Bool(TRUE))>> >>
    IN CASE In(data, "performer") ->
              Obj("HumanTask",
                  base_attrs \o << <<"performer", Item(data, "performer")>> >>)
         [] ~In(data, "performer") /\ In(data, "processRef") ->
              Obj("ProcessTask",
                  base_attrs \o << <<"process_ref", Item(data, "processRef")>> >>)
         [] ~In(data, "performer") /\ ~In(data, "processRef")
                /\ In(data, "caseRef") ->
              Obj("CaseTask",
                  base_attrs \o << <<"case_ref", Item(data, "caseRef")>> >>)
         [] OTHER -> Obj("HumanTask", base_attrs \o << <<"performer", None>> >>)

CMMNParser_parse_json_event(data) ==
    LET base_attrs == BaseAttrs(data)
    IN CASE In(data, "timerExpression") ->
              Obj("TimerEventListener",
                  base_attrs \o
                  << <<"timer_expression", Item(data, "timerExpression")>> >>)
         [] ~In(data, "timerExpression") /\ In(data, "authorizedRoleRefs") ->
              Obj("UserEventListener",
                  base_attrs \o
                  << <<"authorized_role_refs",
                       Item(data, "authorizedRoleRefs")>> >>)
         [] OTHER ->
              Obj("UserEventListener",
                  base_attrs \o << <<"authorized_role_refs", List(<<>>)>> >>)

CMMNParser_parse_json_milestone(data) == Obj("Milestone", BaseAttrs(data))

\* _parse_json_criterion making an EntryCriterion only of type "entry".
CMMNParser_parse_json_criterion_exit_default(data) ==
    LET base_attrs == BaseAttrs(data) \o
            << <<"sentry_ref", GetKey(data, "sentryRef", None)>> >>
    IN IF GetKey(data, "type", None) # Str("entry")
       THEN Obj("ExitCriterion", base_attrs)
       ELSE Obj("EntryCriterion", base_attrs)

CMMNParser_parse_json_criterion(data) ==
    LET base_attrs == BaseAttrs(data) \o
            << <<"sentry_ref", GetKey(data, "sentryRef", None)>> >>
    IN IF GetKey(data, "type", None) = Str("exit")
       THEN Obj("ExitCriterion", base_attrs)
       ELSE Obj("EntryCriterion", base_attrs)

\* The head of a Stage / CasePlanModel built from JSON.
StageAttrs(data) ==
    BaseAttrs(data) \o
    << <<"auto_complete", GetKey(data, "autoComplete", Bool(FALSE))>> >>

\* planItems, sentries, caseFileItems: shared by _parse_plan_model_items and
\* _parse_json_stage.
CMMNParser_parse_plan_model_items(data) ==
    << <<"plan_items",
         OptList(data, "planItems", CMMNParser_parse_json_plan_item)>>,
       <<"sentries", OptList(data, "sentries", CMMNParser_parse_json_sentry)>>,
       <<"case_file_items",
         OptList(data, "caseFileItems",
                 CMMNParser_parse_json_case_file_item)>> >>

NoDefinitions(names) == [i \in 1..Len(names) |-> <<names[i], List(<<>>)>>]

CMMNParser_parse_json_stage(data) ==
    Obj("Stage",
        StageAttrs(data) \o CMMNParser_parse_plan_model_items(data) \o
        NoDefinitions(<<"task_definitions", "event_definitions",
                        "milestone_definitions", "stage_definitions",
                        "criteria_definitions">>))

\* definition_parsers, walked in order by _parse_definition_list.
CMMNParser_parse_plan_model_definitions(data) ==
    << <<"task_definitions",
         OptList(data, "taskDefinitions", CMMNParser_parse_json_task)>>,
       <<"event_definitions",
         OptList(data, "eventDefinitions", CMMNParser_parse_json_event)>>,
       <<"milestone_definitions",
         OptList(data, "milestoneDefinitions",
                 CMMNParser_parse_json_milestone)>>,
       <<"stage_definitions",
         OptList(data, "stageDefinitions", CMMNParser_parse_json_stage)>>,
       <<"criteria_definitions",
         OptList(data, "criteriaDefinitions",
                 CMMNParser_parse_json_criterion)>> >>

CMMNParser_parse_json_case_plan_model(data) ==
    Obj("CasePlanModel",
        StageAttrs(data) \o CMMNParser_parse_plan_model_items(data) \o
        CMMNParser_parse_plan_model_definitions(data))

CMMNParser_parse_json_case(case_data) ==
    Obj("Case",
        BaseAttrs(case_data) \o
        << <<"case_file_model",
             IF In(case_data, "caseFileModel")
             THEN CMMNParser_parse_json_case_file_model(
                      Item(case_data, "caseFileModel"))
             ELSE None>>,
           <<"case_plan_model",
             IF In(case_data, "casePlanModel")
             THEN CMMNParser_parse_json_case_plan_model(
                      Item(case_data, "casePlanModel"))
             ELSE None>>,
           <<"case_roles",
             OptList(case_data, "caseRoles", CMMNParser_parse_json_role)>> >>)

CMMNParser_parse_json_data(data) ==
    LET definitions_data == Item(data, "definitions")
    IN IF IsRaise(definitions_data) THEN definitions_data
       ELSE Obj("CMMNDefinition",
                << <<"target_namespace",
                     GetKey(definitions_data, "targetNamespace", None)>>,
                   <<"expression_language",
                     GetKey(definitions_data, "expressionLanguage", None)>>,
                   <<"exporter", GetKey(definitions_data, "exporter", None)>>,
                   <<"exporter_version",
                     GetKey(definitions_data, "exporterVersion", None)>>,
                   <<"cases",
                     LET cases == Item(definitions_data, "cases")
                     IN IF IsRaise(cases) THEN cases
                        ELSE MapList(cases, CMMNParser_parse_json_case)>> >>)

(* --------------------------- document text ----------------------------- *)

\* A str holding a document is kept as its lexical pieces, in order:
\*   ws       a run of whitespace
\*   xml      one well-formed XML document; body is its root element
\*   badxml   text opening with "<" that is not well-formed ("<a>")
\*   json     one well-formed JSON value; body is the decoded value
\*   badjson  text opening with "{" or "[" that does not decode ("{x")
\*   plain    text opening with a letter that is neither ("plain text")
Text(toks) == [t |-> "text", v |-> toks]

Ws == [k |-> "ws", body |-> None]

XmlTok(root) == [k |-> "xml", body |-> root]

BadXml == [k |-> "badxml", body |-> None]

JsonTok(val) == [k |-> "json", body |-> val]

BadJson(first) == [k |-> "badjson", body |-> Str(first)]

Plain == [k |-> "plain", body |-> None]

\* The first character of one piece.
FirstChar(tok) ==
    CASE tok.k = "ws" -> " "
      [] tok.k \in {"xml", "badxml"} -> "<"
      [] tok.k = "badjson" -> tok.body.v
      [] tok.k = "plain" -> "p"
      [] tok.k = "json" /\ tok.body.t = "dict" -> "{"
      [] tok.k = "json" /\ tok.body.t = "list" -> "["
      [] tok.k = "json" /\ tok.body.t = "text" -> "\""
      [] OTHER -> "n"

RECURSIVE LStrip(_)
LStrip(toks) ==
    IF toks # <<>> /\ Head(toks).k = "ws" THEN LStrip(Tail(toks)) ELSE toks

RECURSIVE RStrip(_)
RStrip(toks) ==
    IF toks # <<>> /\ toks[Len(toks)].k = "ws"
    THEN RStrip(SubSeq(toks, 1, Len(toks) - 1)) ELSE toks

\* str.strip()
Strip(text) == Text(RStrip(LStrip(text.v)))

\* text.startswith(c) for a one-character prefix.
TextStartsWith(text, c) == text.v # <<>> /\ FirstChar(text.v[1]) = c

\* xml.etree.ElementTree.fromstring: the root element of a text that holds
\* exactly one well-formed document between optional whitespace.
ET_fromstring(text) ==
    LET s == Strip(text).v
    IN CASE s = <<>> -> Raise("ParseError", "no element found")
         [] s # <<>> /\ FirstChar(s[1]) # "<" -> Raise("ParseError", "syntax error")
         [] s # <<>> /\ s[1].k = "badxml" ->
                Raise("ParseError", "not well-formed")
         [] s # <<>> /\ s[1].k = "xml" /\ Len(s) > 1 ->
                Raise("ParseError", "junk after document element")
         [] OTHER -> s[1].body

\* json.loads: the value of a text that holds exactly one JSON value between
\* optional whitespace.
json_loads(text) ==
    LET s == Strip(text).v
    IN IF Len(s) = 1 /\ s[1].k = "json" THEN s[1].body
       ELSE Raise("JSONDecodeError", IF s # <<>> /\ s[1].k = "json"
                                     THEN "Extra data" ELSE "Expecting value")

(* ------------------ CMMNParser: the facade (parser.py) ------------------ *)

\* What one call leaves behind: the value returned or the exception raised,
\* the functions entered in order, and self._json_schema afterwards.
R(ret, tr, schema) == [ret |-> ret, trace |-> tr, schema |-> schema]

\* The loaded content of schema.json.
SchemaDocument == [t |-> "schema"]

\* _load_json_schema: opens the bundled file only while the cache is None.
CMMNParser_load_json_schema(cache, env) ==
    IF cache = None
    THEN IF env.schema_file = "missing"
         THEN R(Raise("FileNotFoundError", "schema.json"),
                <<"_load_json_schema", "open">>, cache)
         ELSE R(SchemaDocument, <<"_load_json_schema", "open", "json.load">>,
                SchemaDocument)
    ELSE R(cache, <<"_load_json_schema">>, cache)

CMMNParser_validate_json(cmmn_data, cache, env) ==
    LET ld == CMMNParser_load_json_schema(cache, env)
        pre == <<"validate_json">> \o ld.trace
        data == IF cmmn_data.t = "text" THEN json_loads(cmmn_data)
                ELSE cmmn_data
        pre2 == IF cmmn_data.t = "text" THEN pre \o <<"json.loads">> ELSE pre
    IN CASE IsRaise(ld.ret) -> R(ld.ret, pre, ld.schema)
         [] ~IsRaise(ld.ret) /\ IsRaise(data) ->
              R(Raise("CMMNParseError", "Invalid JSON format"), pre2, ld.schema)
         [] OTHER ->
              R(CASE env.verdict = "valid" -> Bool(TRUE)
                  [] env.verdict = "invalid" ->
                       Raise("CMMNParseError", "JSON validation failed")
                  [] OTHER -> Raise("CMMNParseError", "Schema error"),
                pre2 \o <<"jsonschema.validate">>, ld.schema)

CMMNParser_parse_xml_string(cmmn_text, cache) ==
    LET root == ET_fromstring(cmmn_text)
        pre == <<"parse_xml_string", "ET.fromstring">>
    IN IF IsRaise(root)
       THEN R(Raise("CMMNParseError", "Failed to parse CMMN XML"), pre, cache)
       ELSE R(CMMNParser_parse_xml_tree(root), pre \o <<"_parse_xml_tree">>,
              cache)

\* parse_json_string handing the decoded value to the builder without
\* waiting for the verdict of validate_json.
CMMNParser_parse_json_string_unvalidated(cmmn_json, cache, env) ==
    LET data == json_loads(cmmn_json)
        pre == <<"parse_json_string", "json.loads">>
        v == CMMNParser_validate_json(data, cache, env)
    IN IF IsRaise(data)
       THEN R(Raise("CMMNParseError", "Invalid JSON format"), pre, cache)
       ELSE R(CMMNParser_parse_json_data(data),
              pre \o v.trace \o <<"_parse_json_data">>, v.schema)

CMMNParser_parse_json_string(cmmn_json, cache, env) ==
    LET data == json_loads(cmmn_json)
        pre == <<"parse_json_string", "json.loads">>
        v == CMMNParser_validate_json(data, cache, env)
    IN CASE IsRaise(data) ->
              R(Raise("CMMNParseError", "Invalid JSON format"), pre, cache)
         [] ~IsRaise(data) /\ IsRaise(v.ret) ->
              R(v.ret, pre \o v.trace, v.schema)
         [] OTHER ->
              R(CMMNParser_parse_json_data(data),
                pre \o v.trace \o <<"_parse_json_data">>, v.schema)

\* parse_string(self, cmmn_text): one positional argument besides self; the
\* call binds its arguments before the body runs.
CMMNParser_parse_string(args, cache, env) ==
    IF Len(args) # 1
    THEN R(Raise("TypeError", "parse_string() takes 2 positional arguments"),
           <<>>, cache)
    ELSE LET cmmn_text == args[1]
             stripped == Strip(cmmn_text)
             inner == IF TextStartsWith(stripped, "{")
                      THEN CMMNParser_parse_json_string(cmmn_text, cache, env)
                      ELSE CMMNParser_parse_xml_string(cmmn_text, cache)
         IN R(inner.ret, <<"parse_string">> \o inner.trace, inner.schema)

\* A path on disk: status is "ok" (a readable text file), "missing",
\* "oserror" (open fails: a directory, no permission) or "decodeerror"
\* (read fails on bytes that are not text); suffix is Path.suffix.
File(status, suffix, content) ==
    [status |-> status, suffix |-> suffix, content |-> content]

\* Exceptions the clause `except (IOError, OSError)` catches.
IsOSError(x) == IsRaise(x) /\ x.exc \in {"OSError", "FileNotFoundError"}

CMMNParser_parse_file(file_path, cache, env) ==
    LET content == file_path.content
        inner ==
            IF Lower(file_path.suffix) = ".json"
               \/ TextStartsWith(Strip(content), "{")
            THEN CMMNParser_parse_json_string(content, cache, env)
            ELSE CMMNParser_parse_xml_string(content, cache)
        pre == <<"parse_file", "exists">>
    IN CASE file_path.status = "missing" ->
              R(Raise("CMMNParseError", "CMMN file not found"), pre, cache)
         [] file_path.status = "oserror" ->
              R(Raise("CMMNParseError", "Failed to read CMMN file"),
                pre \o <<"open">>, cache)
         [] file_path.status = "decodeerror" ->
              R(Raise("UnicodeDecodeError", "invalid start byte"),
                pre \o <<"open", "read">>, cache)
         [] OTHER ->
              R(IF IsOSError(inner.ret)
                THEN Raise("CMMNParseError", "Failed to read CMMN file")
                ELSE inner.ret,
                pre \o <<"open", "read">> \o inner.trace, inner.schema)

CMMNParser_parse_json_file(file_path, cache, env) ==
    LET inner == CMMNParser_parse_json_string(file_path.content, cache, env)
        pre == <<"parse_json_file", "open">>
    IN CASE file_path.status = "missing" ->
              R(Raise("CMMNParseError", "CMMN file not found"), pre, cache)
         [] file_path.status = "oserror" ->
              R(Raise("CMMNParseError", "Failed to read CMMN file"), pre, cache)
         [] file_path.status = "decodeerror" ->
              R(Raise("UnicodeDecodeError", "invalid start byte"),
                pre \o <<"read">>, cache)
         [] OTHER ->
              R(CASE IsRaise(inner.ret) /\ inner.ret.exc = "FileNotFoundError" ->
                       Raise("CMMNParseError", "CMMN file not found")
                  [] IsOSError(inner.ret)
                        /\ inner.ret.exc # "FileNotFoundError" ->
                       Raise("CMMNParseError", "Failed to read CMMN file")
                  [] OTHER -> inner.ret,
                pre \o <<"read">> \o inner.trace, inner.schema)

(* ------------------- XMLParser (xml_parser.py) ------------------------- *)

\* The position of the first "}" in a tag, 0 when there is none.
FirstBrace(tag) ==
    LET at == {i \in 1..Len(tag) : SubSeq(tag, i, i) = "}"}
    IN IF at = {} THEN 0 ELSE MinOf(at)

\* _strip_namespace: what follows the first "}", or the tag itself.
XMLParser_strip_namespace(tag) ==
    IF FirstBrace(tag) # 0
    THEN SubSeq(tag, FirstBrace(tag) + 1, Len(tag))
    ELSE tag

\* `for child in element` restricted to the children whose stripped tag is
\* one of tags, in document order.
Children(element, tags) ==
    SelectSeq(element.children,
              LAMBDA c : XMLParser_strip_namespace(c.tag) \in tags)

\* The value a loop of assignments leaves: that of the last matching child.
LastOf(q, default, f(_)) == IF q = <<>> THEN default ELSE f(q[Len(q)])

\* [child.get(name, "") for the matching children]
AttrList(element, tag, name) ==
    List(Map(Children(element, {tag}), LAMBDA c : Get(c, name, Str(""))))

XMLParser_parse_import(element) ==
    [t |-> "Import",
     id |-> Get(element, "id", None),
     name |-> None,
     description |-> None,
     namespace |-> Get(element, "namespace", None),
     location |-> Get(element, "location", None),
     import_type |-> Get(element, "importType", None)]

XMLParser_parse_case_file_item_definition(element) ==
    [t |-> "CaseFileItemDefinition",
     id |-> Get(element, "id", None),
     name |-> Get(element, "name", None),
     description |-> None,
     structure_ref |-> Get(element, "structureRef", None),
     definitive_property |-> AttrList(element, "definitiveProperty", "name")]

XMLParser_parse_plan_item(element) ==
    [t |-> "PlanItem",
     id |-> Get(element, "id", None),
     name |-> Get(element, "name", None),
     description |-> None,
     definition_ref |-> Get(element, "definitionRef", None),
     entry_criteria |-> AttrList(element, "entryCriterion", "sentryRef"),
     exit_criteria |-> AttrList(element, "exitCriterion", "sentryRef")]

XMLParser_parse_sentry(element) ==
    [t |-> "Sentry",
     id |-> Get(element, "id", None),
     name |-> Get(element, "name", None),
     description |-> None,
     on_part |-> AttrList(element, "planItemOnPart", "sourceRef"),
     if_part |-> LastOf(Children(element, {"ifPart"}), None, TextOf)]

XMLParser_parse_stage(element) ==
    [t |-> "Stage",
     id |-> Get(element, "id", None),
     name |-> Get(element, "name", None),
     description |-> None,
     auto_complete |->
         Bool(Lower(GetS(element, "autoComplete", "false")) = "true"),
     plan_items |-> List(Map(Children(element, {"planItem"}),
                             XMLParser_parse_plan_item))]

\* The task class of a stripped tag and the attribute its subclass adds.
TaskClass(tag) ==
    CASE tag = "humanTask" -> "HumanTask"
      [] tag = "processTask" -> "ProcessTask"
      [] tag = "caseTask" -> "CaseTask"
      [] tag = "decisionTask" -> "DecisionTask"
      [] OTHER -> "Task"

\* A task object: the fields of its class, the others of Task left out.
TaskObj(cls, id, name, description, is_blocking, task_type, extra) ==
    LET own == CASE cls = "HumanTask" -> {"performer", "form_key"}
                 [] cls = "ProcessTask" -> {"process_ref"}
                 [] cls = "CaseTask" -> {"case_ref"}
                 [] cls = "DecisionTask" -> {"decision_ref"}
                 [] OTHER -> {}
    IN [f \in {"t", "id", "name", "description", "is_blocking", "task_type"}
              \cup own |->
           CASE f = "t" -> cls
             [] f = "id" -> id
             [] f = "name" -> name
             [] f = "description" -> description
             [] f = "is_blocking" -> is_blocking
             [] f = "task_type" -> task_type
             [] OTHER -> extra[f]]

\* _parse_task comparing isBlocking with "true" without lower().
XMLParser_parse_task_exact(element) ==
    LET tag == XMLParser_strip_namespace(element.tag)
    IN TaskObj(TaskClass(tag), Get(element, "id", None),
               Get(element, "name", None), None,
               Bool(GetS(element, "isBlocking", "true") = "true"),
               Str(tag),
               [performer |-> Get(element, "performer", None),
                form_key |-> Get(element, "formKey", None),
                process_ref |-> Get(element, "processRef", None),
                case_ref |-> Get(element, "caseRef", None),
                decision_ref |-> Get(element, "decisionRef", None)])

XMLParser_parse_task(element) ==
    LET tag == XMLParser_strip_namespace(element.tag)
    IN TaskObj(TaskClass(tag), Get(element, "id", None),
               Get(element, "name", None), None,
               Bool(Lower(GetS(element, "isBlocking", "true")) = "true"),
               Str(tag),
               [performer |-> Get(element, "performer", None),
                form_key |-> Get(element, "formKey", None),
                process_ref |-> Get(element, "processRef", None),
                case_ref |-> Get(element, "caseRef", None),
                decision_ref |-> Get(element, "decisionRef", None)])

XMLParser_parse_milestone(element) ==
    [t |-> "Milestone",
     id |-> Get(element, "id", None),
     name |-> Get(element, "name", None),
     description |-> None]

XMLParser_parse_process(element) ==
    [t |-> "Process",
     id |-> Get(element, "id", None),
     name |-> Get(element, "name", None),
     description |-> None,
     is_executable |->
         Bool(Lower(GetS(element, "isExecutable", "true")) = "true"),
     implementation_type |-> Get(element, "implementationType", None)]

XMLParser_parse_decision(element) ==
    [t |-> "Decision",
     id |-> Get(element, "id", None),
     name |-> Get(element, "name", None),
     description |-> None,
     decision_logic |->
         LastOf(Children(element, {"decisionLogic"}), None, TextOf)]

XMLParser_parse_case_plan_model(element) ==
    [t |-> "CasePlanModel",
     id |-> Get(element, "id", None),
     name |-> Get(element, "name", None),
     description |-> None,
     auto_complete |->
         Bool(Lower(GetS(element, "autoComplete", "false")) = "true"),
     plan_items |-> List(Map(Children(element, {"planItem"}),
                             XMLParser_parse_plan_item)),
     sentries |-> List(Map(Children(element, {"sentry"}),
                           XMLParser_parse_sentry)),
     stages |-> List(Map(Children(element, {"stage"}), XMLParser_parse_stage)),
     tasks |-> List(Map(Children(element,
                                 {"task", "humanTask", "processTask",
                                  "caseTask", "decisionTask"}),
                        XMLParser_parse_task)),
     milestones |-> List(Map(Children(element, {"milestone"}),
                             XMLParser_parse_milestone))]

XMLParser_parse_case_file_model(element) ==
    [t |-> "CaseFileModel",
     id |-> Get(element, "id", None),
     name |-> Get(element, "name", None),
     description |-> None,
     case_file_items |-> AttrList(element, "caseFileItem", "definitionRef")]

XMLParser_parse_case(element) ==
    [t |-> "Case",
     id |-> Get(element, "id", None),
     name |-> Get(element, "name", None),
     description |-> None,
     case_plan_model |-> LastOf(Children(element, {"casePlanModel"}), None,
                                XMLParser_parse_case_plan_model),
     case_file_model |-> LastOf(Children(element, {"caseFileModel"}), None,
                                XMLParser_parse_case_file_model)]

RECURSIVE StrLStrip(_)
StrLStrip(s) ==
    IF Len(s) > 0 /\ IsSpace(SubSeq(s, 1, 1))
    THEN StrLStrip(SubSeq(s, 2, Len(s))) ELSE s

RECURSIVE StrRStrip(_)
StrRStrip(s) ==
    IF Len(s) > 0 /\ IsSpace(SubSeq(s, Len(s), Len(s)))
    THEN StrRStrip(SubSeq(s, 1, Len(s) - 1)) ELSE s

\* str.strip() on an attribute value or an element text.
StrStrip(s) == StrRStrip(StrLStrip(s))

RECURSIVE XMLParser_element_to_dict(_)
\* _element_to_dict: the attributes, then "text" and "children" written over
\* them when the element has non-blank text or child elements.
XMLParser_element_to_dict(element) ==
    LET has_text == element.text # None /\ StrStrip(element.text.v) # ""
        tags == {XMLParser_strip_namespace(element.children[i].tag) :
                    i \in DOMAIN element.children}
        children ==
            Dict([tag \in tags |->
                    List(Map(Children(element, {tag}),
                             XMLParser_element_to_dict))])
        keys == DOMAIN element.attrib
                \cup (IF has_text THEN {"text"} ELSE {})
                \cup (IF tags # {} THEN {"children"} ELSE {})
    IN Dict([k \in keys |->
               CASE k = "children" /\ tags # {} -> children
                 [] k = "text" /\ has_text -> Str(StrStrip(element.text.v))
                 [] OTHER -> Str(element.attrib[k])])

\* _parse_extension_elements: one entry per stripped child tag, the last
\* child of a tag winning.
XMLParser_parse_extension_elements(element) ==
    LET tags == {XMLParser_strip_namespace(element.children[i].tag) :
                    i \in DOMAIN element.children}
    IN [t |-> "ExtensionElements",
        elements |->
            Dict([tag \in tags |->
                    LastOf(Children(element, {tag}), None,
                           XMLParser_element_to_dict)])]

XMLParser_parse_definitions(root) ==
    [t |-> "CMMNDefinitions",
     id |-> Get(root, "id", None),
     name |-> Get(root, "name", None),
     target_namespace |-> Get(root, "targetNamespace", None),
     expression_language |-> Get(root, "expressionLanguage", None),
     exporter |-> Get(root, "exporter", None),
     exporter_version |-> Get(root, "exporterVersion", None),
     author |-> Get(root, "author", None),
     creation_date |-> Get(root, "creationDate", None),
     imports |-> List(Map(Children(root, {"import"}), XMLParser_parse_import)),
     case_file_item_definitions |->
         List(Map(Children(root, {"caseFileItemDefinition"}),
                  XMLParser_parse_case_file_item_definition)),
     cases |-> List(Map(Children(root, {"case"}), XMLParser_parse_case)),
     processes |-> List(Map(Children(root, {"process"}),
                            XMLParser_parse_process)),
     decisions |-> List(Map(Children(root, {"decision"}),
                            XMLParser_parse_decision)),
     extension_elements |->
         LastOf(Children(root, {"extensionElements"}), None,
                XMLParser_parse_extension_elements)]

\* lxml.etree.fromstring on the encoded text.
etree_fromstring(text) ==
    LET root == ET_fromstring(text)
    IN IF IsRaise(root) THEN Raise("XMLSyntaxError", root.msg) ELSE root

\* XMLParser.parse
XMLParser_parse(xml_content) ==
    LET root == etree_fromstring(xml_content)
        pre == <<"XMLParser.parse", "etree.fromstring">>
    IN CASE IsRaise(root) ->
              R(Raise("CMMNParsingError", "Invalid XML syntax"), pre, None)
         [] ~IsRaise(root) /\ EndsWith(root.tag, "definitions") ->
              R(XMLParser_parse_definitions(root),
                pre \o <<"_parse_definitions">>, None)
         [] OTHER ->
              R(Raise("CMMNParsingError", "Root element must be 'definitions'"),
                pre, None)

(* ---------------- CMMNDefinitions.to_dict (models.py) ------------------ *)

\* A dict literal: the keys with their values, in the order written.
DictOf(pairs) ==
    Dict([k \in {pairs[i][1] : i \in 1..Len(pairs)} |->
            pairs[CHOOSE i \in 1..Len(pairs) : pairs[i][1] = k][2]])

\* dict.update(other)
Update(d, other) ==
    Dict([k \in DOMAIN d.v \cup DOMAIN other.v |->
            IF k \in DOMAIN other.v THEN other.v[k] ELSE d.v[k]])

CMMNDefinitions_import_to_dict(imp) ==
    DictOf(<< <<"id", imp.id>>, <<"namespace", imp.namespace>>,
              <<"location", imp.location>>,
              <<"importType", imp.import_type>> >>)

CMMNDefinitions_case_file_item_def_to_dict(cfid) ==
    DictOf(<< <<"id", cfid.id>>, <<"name", cfid.name>>,
              <<"description", cfid.description>>,
              <<"structureRef", cfid.structure_ref>>,
              <<"definitiveProperty", cfid.definitive_property>> >>)

\* _plan_item_to_dict writing the entry criteria under both keys.
CMMNDefinitions_plan_item_to_dict_swapped(pi) ==
    DictOf(<< <<"id", pi.id>>, <<"name", pi.name>>,
              <<"definitionRef", pi.definition_ref>>,
              <<"entryCriteria", pi.entry_criteria>>,
              <<"exitCriteria", pi.entry_criteria>> >>)

CMMNDefinitions_plan_item_to_dict(pi) ==
    DictOf(<< <<"id", pi.id>>, <<"name", pi.name>>,
              <<"definitionRef", pi.definition_ref>>,
              <<"entryCriteria", pi.entry_criteria>>,
              <<"exitCriteria", pi.exit_criteria>> >>)

CMMNDefinitions_sentry_to_dict(sentry) ==
    DictOf(<< <<"id", sentry.id>>, <<"name", sentry.name>>,
              <<"onPart", sentry.on_part>>, <<"ifPart", sentry.if_part>> >>)

CMMNDefinitions_stage_to_dict(stage) ==
    DictOf(<< <<"id", stage.id>>, <<"name", stage.name>>,
              <<"autoComplete", stage.auto_complete>>,
              <<"planItems",
                List(Map(stage.plan_items.v,
                         CMMNDefinitions_plan_item_to_dict))>> >>)

\* _task_to_dict writing taskType "task" and no type key for every variant.
CMMNDefinitions_task_to_dict_generic(task) ==
    LET result == DictOf(<< <<"id", task.id>>, <<"name", task.name>>,
                            <<"isBlocking", task.is_blocking>>,
                            <<"taskType", Str("task")>> >>)
    IN CASE task.t = "HumanTask" ->
              Update(result,
                     DictOf(<< <<"performer", task.performer>>,
                               <<"formKey", task.form_key>> >>))
         [] task.t = "ProcessTask" ->
              Update(result, DictOf(<< <<"processRef", task.process_ref>> >>))
         [] task.t = "CaseTask" ->
              Update(result, DictOf(<< <<"caseRef", task.case_ref>> >>))
         [] task.t = "DecisionTask" ->
              Update(result,
                     DictOf(<< <<"decisionRef", task.decision_ref>> >>))
         [] OTHER -> result

CMMNDefinitions_task_to_dict(task) ==
    LET result == DictOf(<< <<"id", task.id>>, <<"name", task.name>>,
                            <<"isBlocking", task.is_blocking>>,
                            <<"taskType", task.task_type>> >>)
    IN CASE task.t = "HumanTask" ->
              Update(result,
                     DictOf(<< <<"type", Str("humanTask")>>,
                               <<"performer", task.performer>>,
                               <<"formKey", task.form_key>> >>))
         [] task.t = "ProcessTask" ->
              Update(result,
                     DictOf(<< <<"type", Str("processTask")>>,
                               <<"processRef", task.process_ref>> >>))
         [] task.t = "CaseTask" ->
              Update(result,
                     DictOf(<< <<"type", Str("caseTask")>>,
                               <<"caseRef", task.case_ref>> >>))
         [] task.t = "DecisionTask" ->
              Update(result,
                     DictOf(<< <<"type", Str("decisionTask")>>,
                               <<"decisionRef", task.decision_ref>> >>))
         [] OTHER -> result

CMMNDefinitions_milestone_to_dict(milestone) ==
    DictOf(<< <<"id", milestone.id>>, <<"name", milestone.name>>,
              <<"description", milestone.description>> >>)

CMMNDefinitions_process_to_dict(process) ==
    DictOf(<< <<"id", process.id>>, <<"name", process.name>>,
              <<"description", process.description>>,
              <<"isExecutable", process.is_executable>>,
              <<"implementationType", process.implementation_type>> >>)

CMMNDefinitions_decision_to_dict(decision) ==
    DictOf(<< <<"id", decision.id>>, <<"name", decision.name>>,
              <<"description", decision.description>>,
              <<"decisionLogic", decision.decision_logic>> >>)

CMMNDefinitions_case_plan_model_to_dict(cpm) ==
    DictOf(<< <<"id", cpm.id>>, <<"name", cpm.name>>,
              <<"autoComplete", cpm.auto_complete>>,
              <<"planItems",
                List(Map(cpm.plan_items.v, CMMNDefinitions_plan_item_to_dict))>>,
              <<"sentries",
                List(Map(cpm.sentries.v, CMMNDefinitions_sentry_to_dict))>>,
              <<"stages",
                List(Map(cpm.stages.v, CMMNDefinitions_stage_to_dict))>>,
              <<"tasks",
                List(Map(cpm.tasks.v, CMMNDefinitions_task_to_dict))>>,
              <<"milestones",
                List(Map(cpm.milestones.v,
                         CMMNDefinitions_milestone_to_dict))>> >>)

\* An instance of a model class is truthy; None is not.
Truthy(obj) == obj # None

CMMNDefinitions_case_to_dict(case) ==
    LET result == DictOf(<< <<"id", case.id>>, <<"name", case.name>>,
                            <<"description", case.description>> >>)
        with_cpm ==
            IF Truthy(case.case_plan_model)
            THEN Update(result,
                        DictOf(<< <<"casePlanModel",
                                    CMMNDefinitions_case_plan_model_to_dict(
                                        case.case_plan_model)>> >>))
            ELSE result
    IN IF Truthy(case.case_file_model)
       THEN Update(with_cpm,
                   DictOf(<< <<"caseFileModel",
                               DictOf(<< <<"id", case.case_file_model.id>>,
                                         <<"name", case.case_file_model.name>>,
                                         <<"caseFileItems",
                                           case.case_file_model
                                               .case_file_items>> >>)>> >>))
       ELSE with_cpm

CMMNDefinitions_to_dict(self) ==
    LET result ==
            DictOf(<< <<"id", self.id>>, <<"name", self.name>>,
                      <<"targetNamespace", self.target_namespace>>,
                      <<"expressionLanguage", self.expression_language>>,
                      <<"exporter", self.exporter>>,
                      <<"exporterVersion", self.exporter_version>>,
                      <<"author", self.author>>,
                      <<"creationDate", self.creation_date>>,
                      <<"imports",
                        List(Map(self.imports.v,
                                 CMMNDefinitions_import_to_dict))>>,
                      <<"caseFileItemDefinitions",
                        List(Map(self.case_file_item_definitions.v,
                                 CMMNDefinitions_case_file_item_def_to_dict))>>,
                      <<"cases",
                        List(Map(self.cases.v, CMMNDefinitions_case_to_dict))>>,
                      <<"processes",
                        List(Map(self.processes.v,
                                 CMMNDefinitions_process_to_dict))>>,
                      <<"decisions",
                        List(Map(self.decisions.v,
                                 CMMNDefinitions_decision_to_dict))>> >>)
    IN IF Truthy(self.extension_elements)
       THEN Update(result,
                   DictOf(<< <<"extensionElements",
                               self.extension_elements.elements>> >>))
       ELSE result

(* ------------------- JSONParser (json_parser.py) ----------------------- *)

\* id=data.get("id"), name=data.get("name")
IdName(data) ==
    << <<"id", GetKey(data, "id", None)>>,
       <<"name", GetKey(data, "name", None)>> >>

\* description=data.get("description")
Described(data) == << <<"description", GetKey(data, "description", None)>> >>

\* The description a constructor call leaves at its default.
Undescribed == << <<"description", None>> >>

JSONParser_parse_import(data) ==
    Obj("Import",
        << <<"id", GetKey(data, "id", None)>>,
           <<"name", None>>, <<"description", None>>,
           <<"namespace", GetKey(data, "namespace", None)>>,
           <<"location", GetKey(data, "location", None)>>,
           <<"import_type", GetKey(data, "importType", None)>> >>)

JSONParser_parse_case_file_item_definition(data) ==
    Obj("CaseFileItemDefinition",
        IdName(data) \o Described(data) \o
        << <<"structure_ref", GetKey(data, "structureRef", None)>>,
           <<"definitive_property",
             GetKey(data, "definitiveProperty", List(<<>>))>> >>)

JSONParser_parse_case_file_model(data) ==
    Obj("CaseFileModel",
        IdName(data) \o Undescribed \o
        << <<"case_file_items",
             GetKey(data, "caseFileItems", List(<<>>))>> >>)

JSONParser_parse_plan_item(data) ==
    Obj("PlanItem",
        IdName(data) \o Undescribed \o
        << <<"definition_ref", GetKey(data, "definitionRef", None)>>,
           <<"entry_criteria", GetKey(data, "entryCriteria", List(<<>>))>>,
           <<"exit_criteria", GetKey(data, "exitCriteria", List(<<>>))>> >>)

JSONParser_parse_sentry(data) ==
    Obj("Sentry",
        IdName(data) \o Undescribed \o
        << <<"on_part", GetKey(data, "onPart", List(<<>>))>>,
           <<"if_part", GetKey(data, "ifPart", None)>> >>)

JSONParser_parse_stage(data) ==
    Obj("Stage",
        IdName(data) \o Undescribed \o
        << <<"auto_complete", GetKey(data, "autoComplete", Bool(FALSE))>>,
           <<"plan_items",
             OptList(data, "planItems", JSONParser_parse_plan_item)>> >>)

JSONParser_parse_task(data) ==
    LET task_type == GetKey(data, "type", GetKey(data, "taskType", Str("task")))
        base_attrs ==
            IdName(data) \o Undescribed \o
            << <<"is_blocking", GetKey(data, "isBlocking", Bool(TRUE))>>,
               <<"task_type", task_type>> >>
    IN CASE task_type = Str("humanTask") ->
              Obj("HumanTask",
                  base_attrs \o
                  << <<"performer", GetKey(data, "performer", None)>>,
                     <<"form_key", GetKey(data, "formKey", None)>> >>)
         [] task_type = Str("processTask") ->
              Obj("ProcessTask",
                  base_attrs \o
                  << <<"process_ref", GetKey(data, "processRef", None)>> >>)
         [] task_type = Str("caseTask") ->
              Obj("CaseTask",
                  base_attrs \o
                  << <<"case_ref", GetKey(data, "caseRef", None)>> >>)
         [] task_type = Str("decisionTask") ->
              Obj("DecisionTask",
                  base_attrs \o
                  << <<"decision_ref", GetKey(data, "decisionRef", None)>> >>)
         [] OTHER -> Obj("Task", base_attrs)

JSONParser_parse_milestone(data) ==
    Obj("Milestone", IdName(data) \o Described(data))

JSONParser_parse_process(data) ==
    Obj("Process",
        IdName(data) \o Described(data) \o
        << <<"is_executable", GetKey(data, "isExecutable", Bool(TRUE))>>,
           <<"implementation_type",
             GetKey(data, "implementationType", None)>> >>)

JSONParser_parse_decision(data) ==
    Obj("Decision",
        IdName(data) \o Described(data) \o
        << <<"decision_logic", GetKey(data, "decisionLogic", None)>> >>)

JSONParser_parse_case_plan_model(data) ==
    Obj("CasePlanModel",
        IdName(data) \o Undescribed \o
        << <<"auto_complete", GetKey(data, "autoComplete", Bool(FALSE))>>,
           <<"plan_items",
             OptList(data, "planItems", JSONParser_parse_plan_item)>>,
           <<"sentries", OptList(data, "sentries", JSONParser_parse_sentry)>>,
           <<"stages", OptList(data, "stages", JSONParser_parse_stage)>>,
           <<"tasks", OptList(data, "tasks", JSONParser_parse_task)>>,
           <<"milestones",
             OptList(data, "milestones", JSONParser_parse_milestone)>> >>)

JSONParser_parse_case(data) ==
    Obj("Case",
        IdName(data) \o Described(data) \o
        << <<"case_plan_model",
             IF In(data, "casePlanModel")
             THEN JSONParser_parse_case_plan_model(Item(data, "casePlanModel"))
             ELSE None>>,
           <<"case_file_model",
             IF In(data, "caseFileModel")
             THEN JSONParser_parse_case_file_model(Item(data, "caseFileModel"))
             ELSE None>> >>)

JSONParser_parse_definitions(data) ==
    Obj("CMMNDefinitions",
        IdName(data) \o
        << <<"target_namespace", GetKey(data, "targetNamespace", None)>>,
           <<"expression_language", GetKey(data, "expressionLanguage", None)>>,
           <<"exporter", GetKey(data, "exporter", None)>>,
           <<"exporter_version", GetKey(data, "exporterVersion", None)>>,
           <<"author", GetKey(data, "author", None)>>,
           <<"creation_date", GetKey(data, "creationDate", None)>>,
           <<"imports", OptList(data, "imports", JSONParser_parse_import)>>,
           <<"case_file_item_definitions",
             OptList(data, "caseFileItemDefinitions",
                     JSONParser_parse_case_file_item_definition)>>,
           <<"cases", OptList(data, "cases", JSONParser_parse_case)>>,
           <<"processes",
             OptList(data, "processes", JSONParser_parse_process)>>,
           <<"decisions",
             OptList(data, "decisions", JSONParser_parse_decision)>>,
           <<"extension_elements",
             IF In(data, "extensionElements")
             THEN [t |-> "ExtensionElements",
                   elements |-> Item(data, "extensionElements")]
             ELSE None>> >>)

\* JSONParser.parse without its isinstance test.
JSONParser_parse_unchecked(data) == JSONParser_parse_definitions(data)

\* JSONParser.parse
JSONParser_parse(data) ==
    IF data.t # "dict"
    THEN Raise("CMMNParsingError", "JSON data must be a dictionary")
    ELSE JSONParser_parse_definitions(data)

(* ------------------------- sample documents ---------------------------- *)

NoAttrs == [n \in {} |-> ""]

Attr1(n, v) == [x \in {n} |-> v]

CaseC1 == El(Q("case"), Attr1("id", "C1"), None, <<>>)

RootOk == El(Q("definitions"), NoAttrs, None, <<CaseC1>>)

RootWrong == El(Q("case"), Attr1("id", "C1"), None, <<>>)

JOk ==
    Dict(Attr1("definitions",
               Dict(Attr1("cases", List(<<Dict(Attr1("id", Str("C1")))>>)))))

JEmpty == Dict(NoAttrs)

JList == List(<<>>)

\* The pieces the sample texts are made of.
Alphabet ==
    <<Ws, XmlTok(RootOk), XmlTok(RootWrong), BadXml, JsonTok(JOk),
      JsonTok(JEmpty), JsonTok(JList), BadJson("{"), Plain>>

TextOfWord(w) == Text([i \in DOMAIN w |-> Alphabet[w[i]]])

Words == UNION {[1..n -> 1..Len(Alphabet)] : n \in 0..MaxTextLen}

Suffixes == {".json", ".JSON", ".xml", ".cmmn", ".txt"}

\* The environment of one call: whether the bundled schema.json can be
\* opened and what jsonschema.validate decides for the decoded value.
Envs ==
    [schema_file : {"ok", "missing"},
     verdict : {"valid", "invalid", "schema_error"}]

Hints == {<<>>, <<"xml">>, <<"json">>, <<"auto">>}

(* --------------------------- sample trees ------------------------------ *)

\* An attribute mapping from name/value pairs.
AttrsOf(pairs) ==
    [n \in {pairs[i][1] : i \in 1..Len(pairs)} |->
        pairs[CHOOSE i \in 1..Len(pairs) : pairs[i][1] = n][2]]

\* An element of the CMMN namespace without text.
E(local, pairs, children) == El(Q(local), AttrsOf(pairs), None, children)

\* An element of the CMMN namespace holding only text.
T(local, pairs, text) == El(Q(local), AttrsOf(pairs), Str(text), <<>>)

PlanItemFull ==
    E("planItem",
      << <<"id", "PI1">>, <<"name", "Item">>, <<"definitionRef", "HT">>,
         <<"entryCriteriaRefs", "s1 s2">>, <<"exitCriteriaRefs", "">> >>,
      << E("entryCriterion", << <<"sentryRef", "s1">> >>, <<>>),
         E("exitCriterion", <<>>, <<>>),
         E("entryCriterion", << <<"sentryRef", "s2">> >>, <<>>),
         E("itemControl", <<>>,
           << E("requiredRule", <<>>, <<T("condition", <<>>, "x > 1")>>),
              E("repetitionRule", <<>>, <<>>) >>) >>)

SentryFull ==
    E("sentry", << <<"id", "s1">>, <<"name", "Sentry">> >>,
      << E("planItemOnPart", << <<"sourceRef", "PI1">> >>, <<>>),
         E("planItemOnPart", <<>>, <<>>),
         E("onPart", << <<"id", "op1">>, <<"sourceRef", "PI1">> >>,
           <<T("standardEvent", <<>>, "complete")>>),
         T("ifPart", <<>>, "x > 1"),
         E("ifPart", << <<"id", "if2">> >>,
           <<T("condition", <<>>, "y")>>) >>)

HumanTaskNested == E("humanTask", << <<"id", "HT2">> >>, <<>>)

StageFull ==
    E("stage",
      << <<"id", "S1">>, <<"name", "Stage">>, <<"autoComplete", "True">> >>,
      << E("planItem", << <<"id", "PI2">>, <<"entryCriteriaRefs", "s1">> >>,
           <<>>),
         HumanTaskNested,
         E("stage", << <<"id", "S2">> >>, <<HumanTaskNested>>),
         E("milestone", << <<"id", "M2">> >>, <<>>) >>)

\* The children a casePlanModel is assembled from.
CpmKids ==
    << PlanItemFull,
       E("planItem", <<>>, <<>>),
       SentryFull,
       E("sentry", <<>>, <<>>),
       StageFull,
       E("task", << <<"id", "T0">>, <<"isBlocking", "no">> >>, <<>>),
       E("humanTask",
         << <<"id", "HT">>, <<"name", "Review">>, <<"isBlocking", "false">>,
            <<"performer", "clerk">>, <<"formKey", "f1">> >>, <<>>),
       E("processTask", << <<"id", "PT">>, <<"processRef", "P1">> >>, <<>>),
       E("caseTask",
         << <<"id", "CT">>, <<"caseRef", "C2">>, <<"isBlocking", "TRUE">> >>,
         <<>>),
       E("decisionTask", << <<"id", "DT">>, <<"decisionRef", "D1">> >>, <<>>),
       E("milestone", << <<"id", "M1">>, <<"name", "Done">> >>, <<>>),
       E("timerEventListener", << <<"id", "TE">> >>,
         <<T("timerExpression", <<>>, "PT1H")>>),
       E("userEventListener",
         << <<"id", "UE">>, <<"authorizedRoleRefs", "r1 r2">> >>, <<>>),
       E("entryCriterion", << <<"id", "EC">>, <<"sentryRef", "s1">> >>, <<>>),
       E("exitCriterion", << <<"id", "XC">> >>, <<>>),
       E("caseFileItem",
         << <<"id", "CFI">>, <<"definitionRef", "CFID">>,
            <<"targetRefs", "CFI2 CFI3">> >>,
         <<E("caseFileItem", << <<"id", "CFI2">> >>, <<>>)>>),
       E("reactivationCriterion",
         << <<"id", "RC">>, <<"sentryRef", "s1">> >>, <<>>) >>

CaseFileModelFull ==
    E("caseFileModel", << <<"id", "CFM">> >>,
      << E("caseFileItem",
           << <<"id", "CFI">>, <<"definitionRef", "CFID">> >>, <<>>),
         E("caseFileItem", << <<"id", "CFI2">> >>, <<>>) >>)

\* The children a definitions root is assembled from.
RootKids ==
    << E("import",
         << <<"id", "I1">>, <<"namespace", "urn:x">>, <<"location", "x.xsd">>,
            <<"importType", "xsd">> >>, <<>>),
       E("caseFileItemDefinition",
         << <<"id", "CFID">>, <<"name", "Doc">>, <<"structureRef", "doc">> >>,
         << E("definitiveProperty", << <<"name", "p1">> >>, <<>>),
            E("definitiveProperty", <<>>, <<>>) >>),
       E("case", << <<"id", "C1">>, <<"name", "Case">> >>,
         << CaseFileModelFull,
            E("casePlanModel", << <<"id", "CPM">>, <<"autoComplete", "TRUE">> >>,
              <<PlanItemFull, HumanTaskNested>>),
            E("caseRoles", <<>>,
              <<E("role", << <<"id", "R1">>, <<"name", "Clerk">> >>, <<>>)>>) >>),
       E("case", << <<"id", "C2">> >>,
         << E("casePlanModel", << <<"id", "CPM1">> >>, <<>>),
            E("casePlanModel", << <<"id", "CPM2">> >>, <<SentryFull>>) >>),
       E("process",
         << <<"id", "P1">>, <<"isExecutable", "false">>,
            <<"implementationType", "bpmn">> >>, <<>>),
       E("decision", << <<"id", "D1">> >>,
         <<T("decisionLogic", <<>>, "table")>>),
       E("extensionElements", <<>>,
         << El("{urn:x}custom", AttrsOf(<< <<"a", "1">>, <<"text", "t">> >>),
               Str(" x "),
               <<El("{urn:x}inner", NoAttrs, Str("  "), <<>>)>>),
            El("{urn:x}custom", AttrsOf(<< <<"a", "2">> >>), None, <<>>) >>),
       E("extensionElements", <<>>, <<>>),
       El("case", AttrsOf(<< <<"id", "C3">> >>), None, <<>>),
       E("other", <<>>, <<>>) >>

\* The root tags a document is tried with.
RootTags ==
    << Q("definitions"), "definitions", "{urn:other}definitions",
       Q("mydefinitions"), "mydefinitions", Q("case"), "wrong",
       Q("Definitions"), Q("definitionsx") >>

\* Spellings of a boolean attribute; index 0 stands for "absent".
BoolSpellings ==
    << "true", "TRUE", "True", "tRuE", "false", "FALSE", "False", "1", "yes",
       "", " true", "truee", "tru" >>

\* Spellings of a reference-list attribute; index 0 stands for "absent".
RefSpellings ==
    << "", "s1", "s1 s2", "s2 s1", "s1  s2", " s1 s2 ", "s1\ts2", "   ",
       "s1\ns2 s3" >>

\* name="value", or nothing for index 0.
Spelled(name, spellings, i) ==
    IF i = 0 THEN <<>> ELSE << <<name, spellings[i]>> >>

RootAttrs ==
    << <<"id", "defs">>, <<"name", "Definitions">>,
       <<"targetNamespace", "urn:x">>, <<"exporter", "tool">> >>

\* A definitions root around one case around one casePlanModel.
AroundPlanModel(attrs, kids) ==
    E("definitions", RootAttrs,
      <<E("case", << <<"id", "C1">> >>,
          <<E("casePlanModel", << <<"id", "CPM">> >> \o attrs, kids)>>)>>)

\* The deepest chain of nested caseFileItems tried.
MaxDepth == 4

Digits == <<"1", "2", "3">>

\* The shape of a caseFileItem hierarchy: the sequence of the shapes of its
\* children. Chain(n) is the hierarchy of depth n without siblings.
RECURSIVE Chain(_)
Chain(n) == IF n <= 1 THEN <<>> ELSE <<Chain(n - 1)>>

BushyShapes ==
    << << <<>>, <<>> >>,
       << << <<>>, <<>> >>, <<>> >>,
       << <<>>, << << <<>> >>, <<>> >>, <<>> >> >>

Shape(i) == IF i <= MaxDepth THEN Chain(i) ELSE BushyShapes[i - MaxDepth]

ShapeIds == 1..(MaxDepth + Len(BushyShapes))

\* <caseFileItem id=...> of the given shape; the id of a child is the id of
\* its parent followed by the child's position.
RECURSIVE CfiElement(_, _)
CfiElement(shape, id) ==
    E("caseFileItem", << <<"id", id>> >>,
      [k \in 1..Len(shape) |-> CfiElement(shape[k], id \o Digits[k])])

\* Vendor elements placed under extensionElements.
Vendor(tag, pairs, text, children) == El(tag, AttrsOf(pairs), text, children)

ExtElems ==
    << Vendor("{urn:x}custom", << <<"attr", "value">> >>, Str("content"), <<>>),
       Vendor("{urn:x}another", <<>>, Str("\n  "),
              <<Vendor("{urn:x}nested", << <<"attr", "nested">> >>,
                       Str("nested content"), <<>>)>>),
       Vendor("{urn:x}v", << <<"a", "1">>, <<"text", "t">> >>, Str(" x "), <<>>),
       Vendor("{urn:x}v", << <<"text", "t">> >>, Str("  "), <<>>),
       Vendor("v", << <<"children", "c">> >>, None, <<Vendor("k", <<>>, None, <<>>)>>),
       Vendor("{urn:x}v", <<>>, None,
              << Vendor("{urn:x}k", << <<"i", "1">> >>, None, <<>>),
                 Vendor("{urn:x}m", <<>>, None, <<>>),
                 Vendor("{urn:y}k", << <<"i", "2">> >>, Str(" two "),
                        <<Vendor("k", << <<"i", "3">> >>, Str("deep"),
                                 <<>>)>>) >>),
       Vendor("{urn:x}w", <<>>, Str("   "), <<>>),
       Vendor("{urn:x}custom", << <<"attr", "other">> >>, None, <<>>) >>

\* The documents, by family:
\*   root   a root over a word of RootKids
\*   cpm    a casePlanModel over a word of CpmKids
\*   tag    an empty root with one of RootTags
\*   bool   autoComplete / isBlocking in one spelling on every element that
\*          carries it
\*   refs   the four reference-list attributes in one spelling
\*   cfi    a caseFileModel over a caseFileItem hierarchy of one shape,
\*          followed by a childless caseFileItem
\*   ext    an extensionElements child of the root over a word of ExtElems
Document(id) ==
    CASE id[1] = "ext" ->
           E("definitions", RootAttrs,
             <<E("extensionElements", <<>>,
                 [i \in DOMAIN id[2] |-> ExtElems[id[2][i]]])>>)
      [] id[1] = "cfi" ->
           E("definitions", RootAttrs,
             <<E("case", << <<"id", "C1">> >>,
                 <<E("caseFileModel", << <<"id", "CFM">> >>,
                     << CfiElement(Shape(id[2][1]), "i"),
                        CfiElement(<<>>, "z") >>)>>)>>)
      [] id[1] = "root" ->
           E("definitions", RootAttrs, [i \in DOMAIN id[2] |-> RootKids[id[2][i]]])
      [] id[1] = "cpm" ->
           AroundPlanModel(<<>>, [i \in DOMAIN id[2] |-> CpmKids[id[2][i]]])
      [] id[1] = "tag" -> El(RootTags[id[2][1]], NoAttrs, None, <<>>)
      [] id[1] = "bool" ->
           LET ac == Spelled("autoComplete", BoolSpellings, id[2][1])
               ib == Spelled("isBlocking", BoolSpellings, id[2][1])
           IN AroundPlanModel(ac,
                << E("stage", << <<"id", "S1">> >> \o ac,
                     << E("humanTask", << <<"id", "HT2">> >> \o ib, <<>>),
                        E("stage", << <<"id", "S2">> >> \o ac, <<>>) >>),
                   E("task", << <<"id", "T0">> >> \o ib, <<>>),
                   E("humanTask", << <<"id", "HT">> >> \o ib, <<>>),
                   E("processTask", << <<"id", "PT">> >> \o ib, <<>>),
                   E("caseTask", << <<"id", "CT">> >> \o ib, <<>>),
                   E("decisionTask", << <<"id", "DT">> >> \o ib, <<>>) >>)
      [] OTHER ->
           AroundPlanModel(<<>>,
                << E("planItem",
                     << <<"id", "PI1">> >>
                     \o Spelled("entryCriteriaRefs", RefSpellings, id[2][1])
                     \o Spelled("exitCriteriaRefs", RefSpellings, id[2][2]),
                     <<>>),
                   E("caseFileItem",
                     << <<"id", "CFI">> >>
                     \o Spelled("targetRefs", RefSpellings, id[2][1]), <<>>),
                   E("userEventListener",
                     << <<"id", "UE">> >>
                     \o Spelled("authorizedRoleRefs", RefSpellings, id[2][2]),
                     <<>>) >>)

WordsOver(n) == UNION {[1..k -> 1..n] : k \in 0..MaxKids}

DocIds ==
    ({"root"} \X WordsOver(Len(RootKids)))
    \cup ({"cpm"} \X WordsOver(Len(CpmKids)))
    \cup ({"tag"} \X {<<i>> : i \in 1..Len(RootTags)})
    \cup ({"bool"} \X {<<i>> : i \in 0..Len(BoolSpellings)})
    \cup ({"refs"} \X {<<i, j>> : i, j \in 0..Len(RefSpellings)})
    \cup ({"cfi"} \X {<<i>> : i \in ShapeIds})
    \cup ({"ext"} \X WordsOver(Len(ExtElems)))

(* ------------------------------ behaviour ------------------------------ *)

Init ==
    /\ pc = "idle"
    /\ call = [op |-> "none", args |-> <<>>]
    /\ trace = <<>>
    /\ outcome = None
    /\ json_schema = None
    /\ mapping = None
    /\ reparsed = None

\* A facade call runs to completion: its outcome is published at once.
Finish(op, args, r) ==
    /\ pc' = "returned"
    /\ call' = [op |-> op, args |-> args]
    /\ trace' = r.trace
    /\ outcome' = r.ret
    /\ json_schema' = r.schema
    /\ UNCHANGED <<mapping, reparsed>>

ParseString ==
    /\ pc = "idle"
    /\ \E w \in Words, hint \in Hints, env \in Envs :
          LET args == <<TextOfWord(w)>> \o hint
          IN Finish("parse_string", args,
                    CMMNParser_parse_string(args, json_schema, env))

ParseXmlString ==
    /\ pc = "idle"
    /\ \E w \in Words :
          Finish("parse_xml_string", <<TextOfWord(w)>>,
                 CMMNParser_parse_xml_string(TextOfWord(w), json_schema))

ParseJsonString ==
    /\ pc = "idle"
    /\ \E w \in Words, env \in Envs :
          LET r == CMMNParser_parse_json_string(TextOfWord(w), json_schema, env)
          IN /\ call' = [op |-> "parse_json_string",
                         args |-> <<TextOfWord(w)>>, env |-> env]
             /\ trace' = r.trace
             /\ outcome' = r.ret
             /\ json_schema' = r.schema
    /\ pc' = "returned"
    /\ UNCHANGED <<mapping, reparsed>>

ValidateJson ==
    /\ pc = "idle"
    /\ \E w \in Words, env \in Envs, decoded \in BOOLEAN :
          LET text == TextOfWord(w)
              arg == IF decoded THEN json_loads(text) ELSE text
          IN /\ ~IsRaise(arg)
             /\ Finish("validate_json", <<arg>>,
                       CMMNParser_validate_json(arg, json_schema, env))

\* The files a call can name: a readable file of any sample text, or a path
\* that is missing or unreadable.
ParseFile ==
    /\ pc = "idle"
    /\ \E w \in Words, suffix \in Suffixes, env \in Envs,
          status \in {"ok", "missing", "oserror", "decodeerror"} :
          LET f == File(status, suffix, TextOfWord(w))
          IN /\ status # "ok" => w = <<>>
             /\ Finish("parse_file", <<f>>,
                       CMMNParser_parse_file(f, json_schema, env))

ParseJsonFile ==
    /\ pc = "idle"
    /\ \E w \in Words, suffix \in Suffixes, env \in Envs,
          status \in {"ok", "missing", "oserror", "decodeerror"} :
          LET f == File(status, suffix, TextOfWord(w))
          IN /\ status # "ok" => w = <<>>
             /\ Finish("parse_json_file", <<f>>,
                       CMMNParser_parse_json_file(f, json_schema, env))

\* XMLParser.parse on a sample text.
XmlParserParse ==
    /\ pc = "idle"
    /\ \E w \in Words :
          LET r == XMLParser_parse(TextOfWord(w))
          IN Finish("XMLParser.parse", <<TextOfWord(w)>>,
                    R(r.ret, r.trace, json_schema))

\* The caller takes the outcome; the parser instance keeps its schema cache.
Return ==
    /\ pc # "idle"
    /\ pc' = "idle"
    /\ call' = [op |-> "none", args |-> <<>>]
    /\ trace' = <<>>
    /\ outcome' = None
    /\ mapping' = None
    /\ reparsed' = None
    /\ UNCHANGED json_schema

Next ==
    \/ ParseString
    \/ ParseXmlString
    \/ ParseJsonString
    \/ ValidateJson
    \/ ParseFile
    \/ ParseJsonFile
    \/ XmlParserParse
    \/ Return

Spec == Init /\ [][Next]_vars

(* ------------------- behaviour on the sample trees --------------------- *)

\* The text of a document: its serialization, one well-formed piece.
DocText(id) == Text(<<XmlTok(Document(id))>>)

\* XMLParser().parse(text)
TreeXmlParse ==
    /\ pc = "idle"
    /\ \E id \in DocIds :
          LET r == XMLParser_parse(DocText(id))
          IN /\ call' = [op |-> "XMLParser.parse", args |-> <<DocText(id)>>,
                         doc |-> id]
             /\ trace' = r.trace
             /\ outcome' = r.ret
    /\ pc' = "parsed"
    /\ UNCHANGED <<json_schema, mapping, reparsed>>

\* definitions.to_dict() on the tree XMLParser returned.
ToDict ==
    /\ pc = "parsed"
    /\ ~IsRaise(outcome)
    /\ mapping' = CMMNDefinitions_to_dict(outcome)
    /\ pc' = "dumped"
    /\ trace' = trace \o <<"to_dict">>
    /\ UNCHANGED <<call, outcome, json_schema, reparsed>>

\* JSONParser().parse(mapping)
JsonParse ==
    /\ pc = "dumped"
    /\ reparsed' = JSONParser_parse(mapping)
    /\ pc' = "reparsed"
    /\ trace' = trace \o <<"JSONParser.parse">>
    /\ UNCHANGED <<call, outcome, json_schema, mapping>>

\* CMMNParser().parse_xml_string(text)
TreeCmmnParse ==
    /\ pc = "idle"
    /\ \E id \in DocIds :
          LET r == CMMNParser_parse_xml_string(DocText(id), json_schema)
          IN /\ call' = [op |-> "parse_xml_string", args |-> <<DocText(id)>>,
                         doc |-> id]
             /\ trace' = r.trace
             /\ outcome' = r.ret
             /\ json_schema' = r.schema
    /\ pc' = "returned"
    /\ UNCHANGED <<mapping, reparsed>>

NextTree ==
    \/ TreeXmlParse
    \/ ToDict
    \/ JsonParse
    \/ TreeCmmnParse
    \/ Return

SpecTree == Init /\ [][NextTree]_vars

(* ------------------------- sample JSON values -------------------------- *)

\* A JSON object from key/value pairs.
JObj(pairs) == DictOf(pairs)

\* Decoded values that are not objects.
NonObjects ==
    << Str("definitions"), Str(""), Num(1), Num(0), List(<<>>),
       List(<<JObj(<< <<"id", Str("C1")>> >>)>>), Bool(TRUE), Bool(FALSE),
       None >>

\* Values of a task's discriminator key; index 0 stands for "key absent".
TaskTypes ==
    << Str("humanTask"), Str("processTask"), Str("caseTask"),
       Str("decisionTask"), Str("task"), Str("customTask"), Str("HumanTask"),
       None >>

\* The discriminator key a task object is written with.
TaskTypeKeys == <<"type", "taskType">>

\* The variant-specific reference keys, with the value each is given.
RefKeys == <<"performer", "processRef", "caseRef", "decisionRef">>

RefValues == <<"bob", "p1", "c1", "d1">>

\* The reference keys selected by the bits of ri.
RefKeySet(ri) == {RefKeys[j] : j \in {j \in 1..4 : (ri \div (2 ^ (j - 1))) % 2 = 1}}

\* A task object: an id, the chosen reference keys, and the discriminator
\* under the chosen key unless ti = 0.
SampleTask(ki, ti, ri) ==
    Dict([k \in {"id"} \cup RefKeySet(ri)
                \cup (IF ti = 0 THEN {} ELSE {TaskTypeKeys[ki]}) |->
            CASE k = "id" -> Str("T1")
              [] k \in {"type", "taskType"} -> TaskTypes[ti]
              [] OTHER ->
                   Str(RefValues[CHOOSE j \in 1..4 : RefKeys[j] = k])])

\* Values of a criterion's type key; index 0 stands for "key absent".
CritTypes ==
    << Str("exit"), Str("entry"), Str("EXIT"), Str("Exit"), Str(" exit"),
       Str("reactivation"), Str("exitCriterion"), Str(""), None, Bool(TRUE),
       Num(1), List(<<Str("exit")>>) >>

SampleCriterion(ci) ==
    JObj(<< <<"id", Str("K1")>>, <<"sentryRef", Str("s1")>> >>
         \o (IF ci = 0 THEN <<>> ELSE << <<"type", CritTypes[ci]>> >>))

\* {"cases": [case]}: the document JSONParser reads.
FlatDoc(case) == JObj(<< <<"id", Str("defs")>>, <<"cases", List(<<case>>)>> >>)

\* {"definitions": {"cases": [case]}}: the document CMMNParser reads.
SplitDoc(case) ==
    JObj(<< <<"definitions", JObj(<< <<"cases", List(<<case>>)>> >>)>> >>)

\* A case around a casePlanModel with the given members.
JCase(plan_pairs) ==
    JObj(<< <<"id", Str("C1")>>,
            <<"casePlanModel",
              JObj(<< <<"id", Str("P1")>> >> \o plan_pairs)>> >>)

EmptyObj == JObj(<<>>)

\* Objects with keys left out, in both dialects.
SparseDocs ==
    << JObj(<< <<"cases", List(<<JObj(<< <<"id", Str("C1")>> >>)>>)>> >>),
       EmptyObj,
       JObj(<< <<"cases", List(<<EmptyObj>>)>> >>),
       JObj(<< <<"cases",
                 List(<<JObj(<< <<"id", Str("C1")>>,
                                <<"casePlanModel", EmptyObj>>,
                                <<"caseFileModel", EmptyObj>> >>)>>)>> >>),
       JObj(<< <<"cases",
                 List(<<JObj(<< <<"casePlanModel",
                                  JObj(<< <<"planItems", List(<<EmptyObj>>)>>,
                                          <<"sentries", List(<<EmptyObj>>)>>,
                                          <<"stages", List(<<EmptyObj>>)>>,
                                          <<"tasks", List(<<EmptyObj>>)>>,
                                          <<"milestones",
                                            List(<<EmptyObj>>)>> >>)>> >>)>>)>> >>),
       JObj(<< <<"imports", List(<<EmptyObj>>)>>,
               <<"caseFileItemDefinitions", List(<<EmptyObj>>)>>,
               <<"processes", List(<<EmptyObj>>)>>,
               <<"decisions", List(<<EmptyObj>>)>>,
               <<"extensionElements", EmptyObj>> >>),
       SplitDoc(JObj(<< <<"id", Str("C1")>> >>)),
       JObj(<< <<"definitions", EmptyObj>> >>),
       SplitDoc(EmptyObj),
       SplitDoc(JObj(<< <<"id", Str("C1")>>, <<"casePlanModel", EmptyObj>> >>)),
       SplitDoc(JCase(<< <<"planItems", List(<<EmptyObj>>)>> >>)),
       SplitDoc(JCase(<< <<"taskDefinitions", List(<<EmptyObj>>)>> >>)),
       SplitDoc(JCase(<< <<"criteriaDefinitions", List(<<EmptyObj>>)>> >>)),
       SplitDoc(JCase(<<>>)),
       SplitDoc(JObj(<< <<"id", Str("C1")>>,
                        <<"caseFileModel", EmptyObj>> >>)),
       SplitDoc(JObj(<< <<"id", Str("C1")>>,
                        <<"caseRoles", List(<<EmptyObj>>)>> >>)) >>

\* {"id": ..., "children": [...]} of the given shape; a childless item has
\* no children key.
RECURSIVE CfiData(_, _)
CfiData(shape, id) ==
    JObj(<< <<"id", Str(id)>> >>
         \o (IF shape = <<>> THEN <<>>
             ELSE << <<"children",
                       List([k \in 1..Len(shape) |->
                               CfiData(shape[k], id \o Digits[k])])>> >>))

\* The members of a stage object, with the field of Stage each is built into.
StageMemberKeys ==
    <<"planItems", "sentries", "stages", "taskDefinitions",
      "eventDefinitions", "milestoneDefinitions", "stageDefinitions",
      "criteriaDefinitions">>

StageMemberFields ==
    <<"plan_items", "sentries", "stages", "task_definitions",
      "event_definitions", "milestone_definitions", "stage_definitions",
      "criteria_definitions">>

\* A stage object nested d deep whose innermost stage holds one object with
\* the id X1 under the member key; nest_key holds the nested stages.
RECURSIVE StageData(_, _, _)
StageData(d, key, nest_key) ==
    JObj(<< <<"id", Str("S")>>,
            IF d <= 1 THEN <<key, List(<<JObj(<< <<"id", Str("X1")>> >>)>>)>>
            ELSE <<nest_key, List(<<StageData(d - 1, key, nest_key)>>)>> >>)

\* The decoded JSON values, by family:
\*   scalar  one of NonObjects
\*   task    one task object in a plan model, in the flat dialect
\*           ("tasks", d = 1) or the split dialect ("taskDefinitions", d = 2)
\*   crit    one criterion object under criteriaDefinitions
\*   sparse  one of SparseDocs
\*   cfi     a caseFileModel over a caseFileItem hierarchy of one shape,
\*           followed by a childless caseFileItem
\*   stage   one stage object nested id[2][2] deep in a plan model, holding
\*           one member, in the flat dialect ("stages", id[2][1] = 1) or the
\*           split dialect ("stageDefinitions", id[2][1] = 2)
JsonDocument(id) ==
    CASE id[1] = "scalar" -> NonObjects[id[2][1]]
      [] id[1] = "stage" ->
           LET nest_key == IF id[2][1] = 1 THEN "stages" ELSE "stageDefinitions"
               stage == StageData(id[2][2], StageMemberKeys[id[2][3]], nest_key)
           IN IF id[2][1] = 1
              THEN FlatDoc(JCase(<< <<nest_key, List(<<stage>>)>> >>))
              ELSE SplitDoc(JCase(<< <<nest_key, List(<<stage>>)>> >>))
      [] id[1] = "cfi" ->
           SplitDoc(JObj(<< <<"id", Str("C1")>>,
                            <<"caseFileModel",
                              JObj(<< <<"id", Str("CFM")>>,
                                      <<"caseFileItems",
                                        List(<< CfiData(Shape(id[2][1]), "i"),
                                                CfiData(<<>>, "z") >>)>> >>)>> >>))
      [] id[1] = "task" ->
           LET task == SampleTask(id[2][2], id[2][3], id[2][4])
           IN IF id[2][1] = 1
              THEN FlatDoc(JCase(<< <<"tasks", List(<<task>>)>> >>))
              ELSE SplitDoc(JCase(<< <<"taskDefinitions", List(<<task>>)>> >>))
      [] id[1] = "crit" ->
           SplitDoc(JCase(<< <<"criteriaDefinitions",
                               List(<<SampleCriterion(id[2][1]),
                                      SampleCriterion(1)>>)>> >>))
      [] OTHER -> SparseDocs[id[2][1]]

JsonDocIds ==
    ({"scalar"} \X {<<i>> : i \in 1..Len(NonObjects)})
    \cup ({"task"} \X {<<d, ki, ti, ri>> :
                          d \in 1..2, ki \in 1..2, ti \in 0..Len(TaskTypes),
                          ri \in 0..15})
    \cup ({"crit"} \X {<<i>> : i \in 0..Len(CritTypes)})
    \cup ({"sparse"} \X {<<i>> : i \in 1..Len(SparseDocs)})
    \cup ({"cfi"} \X {<<i>> : i \in ShapeIds})
    \cup ({"stage"} \X {<<dialect, d, m>> :
                           dialect \in 1..2, d \in 1..2,
                           m \in 1..Len(StageMemberKeys)})

(* ------------------- behaviour on the JSON values ---------------------- *)

\* JSONParser().parse(data)
JsonParserParse ==
    /\ pc = "idle"
    /\ \E id \in JsonDocIds :
          /\ call' = [op |-> "JSONParser.parse", args |-> <<JsonDocument(id)>>,
                      jdoc |-> id]
          /\ outcome' = JSONParser_parse(JsonDocument(id))
    /\ pc' = "parsed"
    /\ trace' = <<"JSONParser.parse">>
    /\ UNCHANGED <<json_schema, mapping, reparsed>>

\* CMMNParser().parse_json_string(json.dumps(data))
CmmnParseJson ==
    /\ pc = "idle"
    /\ \E id \in JsonDocIds, env \in Envs :
          LET text == Text(<<JsonTok(JsonDocument(id))>>)
              r == CMMNParser_parse_json_string(text, json_schema, env)
          IN /\ call' = [op |-> "parse_json_string", args |-> <<text>>,
                         jdoc |-> id]
             /\ trace' = r.trace
             /\ outcome' = r.ret
             /\ json_schema' = r.schema
    /\ pc' = "returned"
    /\ UNCHANGED <<mapping, reparsed>>

\* One to_dict() call: the mapping it returns and the tree after the call.
\* Neither to_dict nor any _*_to_dict helper assigns to a field of the tree.
CMMNDefinitions_to_dict_call_draining(self) ==
    [ret |-> CMMNDefinitions_to_dict(self),
     self |-> [self EXCEPT !.cases = List(<<>>)]]

CMMNDefinitions_to_dict_call(self) ==
    [ret |-> CMMNDefinitions_to_dict(self), self |-> self]

\* A second definitions.to_dict() on the same tree.
ToDictAgain ==
    /\ pc = "dumped"
    /\ LET r == CMMNDefinitions_to_dict_call(outcome)
       IN /\ mapping' = r.ret
          /\ outcome' = r.self
    /\ pc' = "dumped_again"
    /\ trace' = trace \o <<"to_dict">>
    /\ UNCHANGED <<call, json_schema, reparsed>>

NextJson ==
    \/ JsonParserParse
    \/ CmmnParseJson
    \/ TreeXmlParse
    \/ TreeCmmnParse
    \/ ToDict
    \/ ToDictAgain
    \/ JsonParse
    \/ Return

SpecJson == Init /\ [][NextJson]_vars

(* ------------- CMMNValidator: the JSON schema (validator.py) ----------- *)

\* Schema literals.  A schema is a record holding the keywords written.
StringSchema == [type |-> "string"]

BooleanSchema == [type |-> "boolean"]

ArrayOf(items) == [type |-> "array", items |-> items]

ObjectOf(properties) == [type |-> "object", properties |-> properties]

\* The items of planItems, under casePlanModel and under stages alike.
PlanItemSchema ==
    ObjectOf([id |-> StringSchema, name |-> StringSchema,
              definitionRef |-> StringSchema,
              entryCriteria |-> ArrayOf(StringSchema),
              exitCriteria |-> ArrayOf(StringSchema)])

CasePlanModelSchema ==
    ObjectOf(
      [id |-> StringSchema, name |-> StringSchema,
       autoComplete |-> BooleanSchema,
       planItems |-> ArrayOf(PlanItemSchema),
       sentries |->
          ArrayOf(ObjectOf([id |-> StringSchema, name |-> StringSchema,
                            onPart |-> ArrayOf(StringSchema),
                            ifPart |-> StringSchema])),
       stages |->
          ArrayOf(ObjectOf([id |-> StringSchema, name |-> StringSchema,
                            autoComplete |-> BooleanSchema,
                            planItems |-> ArrayOf(PlanItemSchema)])),
       tasks |->
          ArrayOf(ObjectOf([id |-> StringSchema, name |-> StringSchema,
                            type |-> StringSchema,
                            isBlocking |-> BooleanSchema,
                            taskType |-> StringSchema,
                            performer |-> StringSchema,
                            formKey |-> StringSchema,
                            processRef |-> StringSchema,
                            caseRef |-> StringSchema,
                            decisionRef |-> StringSchema])),
       milestones |->
          ArrayOf(ObjectOf([id |-> StringSchema, name |-> StringSchema,
                            description |-> StringSchema]))])

CaseSchema ==
    ObjectOf(
      [id |-> StringSchema, name |-> StringSchema,
       description |-> StringSchema,
       casePlanModel |-> CasePlanModelSchema,
       caseFileModel |->
          ObjectOf([id |-> StringSchema, name |-> StringSchema,
                    caseFileItems |-> ArrayOf(StringSchema)])])

\* The properties of the top-level object.
DefinitionsProperties ==
    [id |-> StringSchema, name |-> StringSchema,
     targetNamespace |-> StringSchema, expressionLanguage |-> StringSchema,
     exporter |-> StringSchema, exporterVersion |-> StringSchema,
     author |-> StringSchema, creationDate |-> StringSchema,
     imports |->
        ArrayOf(ObjectOf([id |-> StringSchema, namespace |-> StringSchema,
                          location |-> StringSchema,
                          importType |-> StringSchema])),
     caseFileItemDefinitions |->
        ArrayOf(ObjectOf([id |-> StringSchema, name |-> StringSchema,
                          description |-> StringSchema,
                          structureRef |-> StringSchema,
                          definitiveProperty |-> ArrayOf(StringSchema)])),
     cases |-> ArrayOf(CaseSchema),
     processes |->
        ArrayOf(ObjectOf([id |-> StringSchema, name |-> StringSchema,
                          description |-> StringSchema,
                          isExecutable |-> BooleanSchema,
                          implementationType |-> StringSchema])),
     decisions |->
        ArrayOf(ObjectOf([id |-> StringSchema, name |-> StringSchema,
                          description |-> StringSchema,
                          decisionLogic |-> StringSchema])),
     extensionElements |-> [type |-> "object", additionalProperties |-> TRUE]]

\* _load_json_schema with the top-level object left open.
CMMNValidator_load_json_schema_open ==
    [type |-> "object",
     title |-> "CMMN Definitions Schema",
     description |-> "Schema for CMMN definitions in JSON format",
     properties |-> DefinitionsProperties,
     additionalProperties |-> TRUE]

\* _load_json_schema: the schema literal assigned to self._json_schema
\* ("$schema" names draft-07, whose keywords jsonschema_errors computes).
CMMNValidator_load_json_schema ==
    [type |-> "object",
     title |-> "CMMN Definitions Schema",
     description |-> "Schema for CMMN definitions in JSON format",
     properties |-> DefinitionsProperties,
     additionalProperties |-> FALSE]

\* The JSON type of a decoded value, as draft-07 names it.
JsonType(v) ==
    CASE v.t = "dict" -> "object"
      [] v.t = "list" -> "array"
      [] v.t = "str" -> "string"
      [] v.t = "bool" -> "boolean"
      [] v.t = "int" -> "integer"
      [] OTHER -> "null"

\* jsonschema.validate: the violations of schema by instance, each by its
\* message, for the keywords type, required, properties,
\* additionalProperties and items.
RECURSIVE jsonschema_errors(_, _)
jsonschema_errors(instance, schema) ==
    LET keywords == DOMAIN schema
        properties ==
            IF "properties" \in keywords THEN DOMAIN schema.properties ELSE {}
        type_errors ==
            IF "type" \in keywords /\ JsonType(instance) # schema.type
            THEN {"value is not of type '" \o schema.type \o "'"}
            ELSE {}
        required_errors ==
            IF "required" \in keywords /\ instance.t = "dict"
            THEN {"'" \o k \o "' is a required property" :
                     k \in schema.required \ DOMAIN instance.v}
            ELSE {}
        property_errors ==
            IF instance.t = "dict"
            THEN UNION {jsonschema_errors(instance.v[k], schema.properties[k]) :
                           k \in DOMAIN instance.v \cap properties}
            ELSE {}
        additional_errors ==
            IF "additionalProperties" \in keywords /\ instance.t = "dict"
                  /\ ~schema.additionalProperties
            THEN {"Additional properties are not allowed ('" \o k
                      \o "' was unexpected)" :
                     k \in DOMAIN instance.v \ properties}
            ELSE {}
        item_errors ==
            IF "items" \in keywords /\ instance.t = "list"
            THEN UNION {jsonschema_errors(instance.v[i], schema.items) :
                           i \in DOMAIN instance.v}
            ELSE {}
    IN type_errors \cup required_errors \cup property_errors
       \cup additional_errors \cup item_errors

\* CMMNValidator.validate_json on an instance whose cache field is cache;
\* reported is the violation jsonschema.validate raises when there is one.
\* (cmmn_parser imports jsonschema unconditionally in parser.py, so the
\* module is importable wherever the package is.)
CMMNValidator_validate_json(json_data, cache, reported) ==
    LET loaded == cache = None
        schema == IF loaded THEN CMMNValidator_load_json_schema ELSE cache
        tr == <<"validate_json">>
              \o (IF loaded THEN <<"_load_json_schema">> ELSE <<>>)
              \o <<"jsonschema.validate">>
    IN IF jsonschema_errors(json_data, schema) = {}
       THEN R(Bool(TRUE), tr, schema)
       ELSE R(Raise("CMMNValidationError",
                    "JSON validation failed: " \o reported), tr, schema)

(* ---------------- validation functions (validation.py) ----------------- *)

\* load_cmmn_schema: reads schema.json on every call.
load_cmmn_schema(env) ==
    IF env.schema_file = "missing"
    THEN Raise("FileNotFoundError", "schema.json")
    ELSE SchemaDocument

validate_cmmn_json(cmmn_data, env) ==
    LET schema == load_cmmn_schema(env)
        data == IF cmmn_data.t = "text" THEN json_loads(cmmn_data)
                ELSE cmmn_data
    IN CASE IsRaise(schema) -> schema
         [] ~IsRaise(schema) /\ IsRaise(data) ->
              Raise("CMMNParseError", "Invalid JSON format")
         [] ~IsRaise(schema) /\ ~IsRaise(data) /\ env.verdict = "valid" ->
              Bool(TRUE)
         [] ~IsRaise(schema) /\ ~IsRaise(data) /\ env.verdict = "invalid" ->
              Raise("CMMNParseError", "JSON validation failed")
         [] OTHER -> Raise("CMMNParseError", "Schema error")

\* get_validation_errors: the CMMNParseError of validate_cmmn_json becomes a
\* one-element list; any other exception passes through the try statement.
get_validation_errors(cmmn_data, env) ==
    LET r == validate_cmmn_json(cmmn_data, env)
    IN CASE ~IsRaise(r) -> List(<<>>)
         [] IsRaise(r) /\ r.exc = "CMMNParseError" -> List(<<Str(r.msg)>>)
         [] OTHER -> r

(* ---------------------- sample documents to validate ------------------- *)

\* A document every key of which the schema knows.
BaseDoc == FlatDoc(JObj(<< <<"id", Str("C1")>>, <<"name", Str("Case")>> >>))

\* dict | {key: value}
WithKey(d, key, value) == Update(d, DictOf(<< <<key, value>> >>))

\* Keys the schema does not list for the top-level object.
ExtraKeys ==
    <<"definitions", "foo", "Cases", "ID", "extension", "$schema", "">>

\* Values given to vendor extensions and extra keys.
ExtValues ==
    << EmptyObj,
       JObj(<< <<"a", Str("1")>> >>),
       JObj(<< <<"id", Num(5)>>, <<"cases", Str("x")>>, <<"foo", None>> >>),
       JObj(<< <<"vendor",
                 JObj(<< <<"deep",
                           List(<< JObj(<< <<"k", None>>,
                                           <<"n", JObj(<< <<"m",
                                                            Bool(TRUE)>> >>)>> >>),
                                   Num(1) >>)>> >>)>> >>),
       JObj(<< <<"additionalProperties", Bool(FALSE)>>,
               <<"extensionElements", EmptyObj>> >>) >>

\* Documents holding a case object without the id key.
NoIdDocs ==
    << FlatDoc(JObj(<< <<"name", Str("Test Case")>> >>)),
       FlatDoc(EmptyObj),
       JObj(<< <<"cases",
                 List(<< JObj(<< <<"id", Str("C1")>> >>),
                         JObj(<< <<"name", Str("Test Case")>> >>) >>)>> >>) >>

\* Documents with a value of the wrong type, or an unknown key below the
\* top level.
TypeDocs ==
    << JObj(<< <<"id", Num(1)>> >>),
       JObj(<< <<"cases", EmptyObj>> >>),
       JObj(<< <<"cases", List(<<Str("x")>>)>> >>),
       FlatDoc(JObj(<< <<"id", Num(5)>> >>)),
       JObj(<< <<"extensionElements", List(<<>>)>> >>),
       JObj(<< <<"extensionElements", Str("x")>> >>),
       FlatDoc(JObj(<< <<"casePlanModel",
                         JObj(<< <<"autoComplete", Str("true")>> >>)>> >>)),
       FlatDoc(JObj(<< <<"caseFileModel",
                         JObj(<< <<"caseFileItems",
                                   List(<<EmptyObj>>)>> >>)>> >>)),
       FlatDoc(JObj(<< <<"id", Str("C1")>>, <<"foo", Num(1)>> >>)),
       JObj(<< <<"name", None>> >>) >>

\* The documents given to the validators, by family:
\*   top    a known document (empty for b = 1, BaseDoc for b = 2) with one
\*          of ExtraKeys added at the top level
\*   ext    BaseDoc with one of ExtValues as its extensionElements
\*   noid   one of NoIdDocs
\*   type   one of TypeDocs
\* and every sample JSON value that is not a str.
ValidationDocument(id) ==
    CASE id[1] = "top" ->
           WithKey(IF id[2][1] = 1 THEN EmptyObj ELSE BaseDoc,
                   ExtraKeys[id[2][2]], ExtValues[id[2][3]])
      [] id[1] = "ext" ->
           WithKey(BaseDoc, "extensionElements", ExtValues[id[2][1]])
      [] id[1] = "noid" -> NoIdDocs[id[2][1]]
      [] id[1] = "type" -> TypeDocs[id[2][1]]
      [] OTHER -> JsonDocument(id)

ValidationDocIds ==
    ({"top"} \X {<<b, k, e>> : b \in 1..2, k \in 1..Len(ExtraKeys),
                               e \in 1..Len(ExtValues)})
    \cup ({"ext"} \X {<<e>> : e \in 1..Len(ExtValues)})
    \cup ({"noid"} \X {<<i>> : i \in 1..Len(NoIdDocs)})
    \cup ({"type"} \X {<<i>> : i \in 1..Len(TypeDocs)})
    \cup {id \in JsonDocIds : JsonDocument(id).t # "str"}

(* ----------------------- behaviour of validation ----------------------- *)

\* validator.validate_json(data) on one CMMNValidator instance, whose
\* _json_schema field is json_schema.
ValidatorValidateJson ==
    /\ pc = "idle"
    /\ \E id \in ValidationDocIds :
          LET data == ValidationDocument(id)
              schema == IF json_schema = None
                        THEN CMMNValidator_load_json_schema ELSE json_schema
              errors == jsonschema_errors(data, schema)
          IN \E reported \in (IF errors = {} THEN {""} ELSE errors) :
                LET r == CMMNValidator_validate_json(data, json_schema,
                                                     reported)
                IN /\ call' = [op |-> "CMMNValidator.validate_json",
                               args |-> <<data>>, vdoc |-> id]
                   /\ trace' = r.trace
                   /\ outcome' = r.ret
                   /\ json_schema' = r.schema
    /\ pc' = "returned"
    /\ UNCHANGED <<mapping, reparsed>>

\* validate_cmmn_json(cmmn_data)
ValidateCmmnJsonOn(cmmn_data, env) ==
    /\ call' = [op |-> "validate_cmmn_json", args |-> <<cmmn_data>>,
                env |-> env]
    /\ outcome' = validate_cmmn_json(cmmn_data, env)
    /\ pc' = "returned"
    /\ trace' = <<"validate_cmmn_json">>
    /\ UNCHANGED <<json_schema, mapping, reparsed>>

\* The argument is a decoded value or a text.
ValidateCmmnJson ==
    /\ pc = "idle"
    /\ \E env \in Envs :
          \/ \E id \in ValidationDocIds :
                ValidateCmmnJsonOn(ValidationDocument(id), env)
          \/ \E w \in Words : ValidateCmmnJsonOn(TextOfWord(w), env)

\* get_validation_errors(cmmn_data)
GetValidationErrorsOn(cmmn_data, env) ==
    /\ call' = [op |-> "get_validation_errors", args |-> <<cmmn_data>>,
                env |-> env]
    /\ outcome' = get_validation_errors(cmmn_data, env)
    /\ pc' = "returned"
    /\ trace' = <<"get_validation_errors", "validate_cmmn_json">>
    /\ UNCHANGED <<json_schema, mapping, reparsed>>

GetValidationErrors ==
    /\ pc = "idle"
    /\ \E env \in Envs :
          \/ \E id \in ValidationDocIds :
                GetValidationErrorsOn(ValidationDocument(id), env)
          \/ \E w \in Words : GetValidationErrorsOn(TextOfWord(w), env)

NextValidate ==
    \/ ValidatorValidateJson
    \/ ValidateCmmnJson
    \/ GetValidationErrors
    \/ Return

SpecValidate == Init /\ [][NextValidate]_vars

(* ---------------- concurrent callers on one instance ------------------- *)

\* The callers that share one CMMNValidator and one CMMNParser instance.
Threads == {1, 2}

\* The calls one caller makes.
MaxCalls == 2

\* In this part the variables hold, per caller, its position (pc), its call
\* and its outcome, and for the shared instances the cache fields:
\* json_schema is CMMNValidator._json_schema, mapping is
\* CMMNValidator._xml_schema, reparsed is CMMNParser._json_schema; trace
\* lists the assignments made to these fields, in order.
ValidateOps ==
    {"CMMNValidator.validate_json", "CMMNValidator.validate_xml",
     "CMMNParser.validate_json"}

\* The compiled CMMN11.xsd.
XmlSchemaDocument == [t |-> "xmlschema"]

\* The arguments of the calls: decoded documents for the JSON validators,
\* texts for validate_xml.
ThreadDocs == << BaseDoc, TypeDocs[1] >>

ThreadTexts == << Text(<<XmlTok(RootOk)>>), Text(<<BadXml>>) >>

\* The environment of one call: whether the schema file of the operation
\* (schema.json, CMMN11.xsd) can be opened, and the verdict of a validation
\* against a schema that is not part of the sources.
ThreadEnvs == Envs

CacheOf(op) ==
    CASE op = "CMMNValidator.validate_json" -> json_schema
      [] op = "CMMNValidator.validate_xml" -> mapping
      [] OTHER -> reparsed

\* self.<field> = value, for the cache field op uses.
Store(t, op, value) ==
    /\ json_schema' =
          IF op = "CMMNValidator.validate_json" THEN value ELSE json_schema
    /\ mapping' = IF op = "CMMNValidator.validate_xml" THEN value ELSE mapping
    /\ reparsed' = IF op = "CMMNParser.validate_json" THEN value ELSE reparsed
    /\ trace' = Append(trace, [thread |-> t, op |-> op])

InitThreads ==
    /\ pc = [t \in Threads |-> "idle"]
    /\ call = [t \in Threads |-> [op |-> "none", args |-> <<>>, n |-> 0]]
    /\ outcome = [t \in Threads |-> None]
    /\ trace = <<>>
    /\ json_schema = None
    /\ mapping = None
    /\ reparsed = None

\* A caller enters a validate method and evaluates `self._..._schema is
\* None`: validator.py l.50 and l.78, parser.py l.49.
BeginValidate(t) ==
    /\ pc[t] = "idle"
    /\ call[t].n < MaxCalls
    /\ \E op \in ValidateOps, env \in ThreadEnvs, i \in 1..2 :
          /\ op = "CMMNValidator.validate_json" =>
                env = [schema_file |-> "ok", verdict |-> "valid"]
          /\ call' = [call EXCEPT ![t] =
                        [op |-> op,
                         args |-> <<IF op = "CMMNValidator.validate_xml"
                                    THEN ThreadTexts[i] ELSE ThreadDocs[i]>>,
                         env |-> env,
                         n |-> call[t].n + 1]]
          /\ pc' = [pc EXCEPT ![t] =
                      IF CacheOf(op) = None THEN "loading" ELSE "validating"]
    /\ UNCHANGED <<trace, outcome, json_schema, mapping, reparsed>>

\* The caller found the field None and runs the loader, which assigns the
\* field (validator.py l.102 and l.108, parser.py l.52) unless its file
\* cannot be opened.
LoadSchema(t) ==
    /\ pc[t] = "loading"
    /\ LET op == call[t].op
           env == call[t].env
       IN CASE op = "CMMNValidator.validate_json" ->
                 /\ Store(t, op, CMMNValidator_load_json_schema)
                 /\ pc' = [pc EXCEPT ![t] = "validating"]
                 /\ UNCHANGED outcome
            [] op = "CMMNValidator.validate_xml" /\ env.schema_file = "ok" ->
                 /\ Store(t, op, XmlSchemaDocument)
                 /\ pc' = [pc EXCEPT ![t] = "validating"]
                 /\ UNCHANGED outcome
            [] op = "CMMNValidator.validate_xml"
                  /\ env.schema_file = "missing" ->
                 /\ outcome' = [outcome EXCEPT ![t] =
                        Raise("CMMNValidationError",
                              "XML schema file not found")]
                 /\ pc' = [pc EXCEPT ![t] = "returned"]
                 /\ UNCHANGED <<trace, json_schema, mapping, reparsed>>
            [] op = "CMMNParser.validate_json" /\ env.schema_file = "ok" ->
                 /\ Store(t, op, SchemaDocument)
                 /\ pc' = [pc EXCEPT ![t] = "validating"]
                 /\ UNCHANGED outcome
            [] OTHER ->
                 /\ outcome' = [outcome EXCEPT ![t] =
                        Raise("FileNotFoundError", "schema.json")]
                 /\ pc' = [pc EXCEPT ![t] = "returned"]
                 /\ UNCHANGED <<trace, json_schema, mapping, reparsed>>
    /\ UNCHANGED call

\* The caller validates its argument against the field as it is now.
RunValidate(t) ==
    /\ pc[t] = "validating"
    /\ LET op == call[t].op
           env == call[t].env
           arg == call[t].args[1]
       IN \E reported \in
               (IF op = "CMMNValidator.validate_json"
                     /\ jsonschema_errors(arg, json_schema) # {}
                THEN jsonschema_errors(arg, json_schema) ELSE {""}) :
             outcome' = [outcome EXCEPT ![t] =
                CASE op = "CMMNValidator.validate_json" ->
                       CMMNValidator_validate_json(arg, json_schema,
                                                   reported).ret
                  [] op = "CMMNValidator.validate_xml" ->
                       IF IsRaise(ET_fromstring(arg))
                       THEN Raise("CMMNValidationError", "XML syntax error")
                       ELSE IF env.verdict = "valid" THEN Bool(TRUE)
                       ELSE Raise("CMMNValidationError",
                                  "XML validation failed")
                  [] OTHER ->
                       CMMNParser_validate_json(arg, reparsed, env).ret]
    /\ pc' = [pc EXCEPT ![t] = "returned"]
    /\ UNCHANGED <<call, trace, json_schema, mapping, reparsed>>

\* The caller takes its outcome; the instances keep their fields.
ThreadReturn(t) ==
    /\ pc[t] = "returned"
    /\ pc' = [pc EXCEPT ![t] = "idle"]
    /\ outcome' = [outcome EXCEPT ![t] = None]
    /\ call' = [call EXCEPT ![t] =
                  [op |-> "none", args |-> <<>>, n |-> call[t].n]]
    /\ UNCHANGED <<trace, json_schema, mapping, reparsed>>

NextThreads ==
    \E t \in Threads :
        \/ BeginValidate(t)
        \/ LoadSchema(t)
        \/ RunValidate(t)
        \/ ThreadReturn(t)

SpecThreads == InitThreads /\ [][NextThreads]_vars

(* -------- validating what to_dict returns (models.py, validator.py) ---- *)

\* CMMNValidator().validate_json(definitions.to_dict()) on a fresh
\* validator; the value returned or raised is kept in reparsed.
ValidateDumped ==
    /\ pc = "dumped"
    /\ LET errors == jsonschema_errors(mapping, CMMNValidator_load_json_schema)
       IN \E reported \in (IF errors = {} THEN {""} ELSE errors) :
             LET r == CMMNValidator_validate_json(mapping, None, reported)
             IN /\ reparsed' = r.ret
                /\ trace' = trace \o r.trace
    /\ pc' = "validated"
    /\ UNCHANGED <<call, outcome, json_schema, mapping>>

NextDump ==
    \/ JsonParserParse
    \/ TreeXmlParse
    \/ ToDict
    \/ ValidateDumped
    \/ Return

SpecDump == Init /\ [][NextDump]_vars

(* ------------------------------- claims -------------------------------- *)

\* The tree the returned call was given, for calls on the sample trees.
OnTree(op) == pc # "idle" /\ call.op = op /\ "doc" \in DOMAIN call

\* C1: for every document XMLParser.parse accepts, feeding the mapping that
\* to_dict() writes for the parsed tree to JSONParser.parse gives back a tree
\* equal to the parsed one: same class, same scalars, same task variants,
\* every collection in the same order.
C1_RoundTripEqual == pc = "reparsed" => reparsed = outcome

\* A round trip over a plan model holding two tasks of different variants.
C1_RoundTripWitness ==
    /\ pc = "reparsed"
    /\ call.doc[1] = "cpm"
    /\ Len(outcome.cases.v[1].case_plan_model.tasks.v) = 2
    /\ outcome.cases.v[1].case_plan_model.tasks.v[1].t = "HumanTask"
    /\ outcome.cases.v[1].case_plan_model.tasks.v[2].t = "Task"

\* A finished auto-detecting call: parse_string(text) with no format hint.
AutoCall == pc = "returned" /\ call.op = "parse_string" /\ Len(call.args) = 1

Entered(f) == \E i \in DOMAIN trace : trace[i] = f

\* C2: in auto-detection, text whose trimmed form starts with "<" goes to
\* the XML builder and text whose trimmed form starts with "{" or "[" goes
\* to the JSON builder.
C2_AutoDetectLeadingCharacter ==
    AutoCall =>
        LET stripped == Strip(call.args[1])
        IN /\ TextStartsWith(stripped, "<") =>
                 Entered("parse_xml_string") /\ ~Entered("parse_json_string")
           /\ (TextStartsWith(stripped, "{") \/ TextStartsWith(stripped, "[")) =>
                 Entered("parse_json_string") /\ ~Entered("parse_xml_string")

\* The failures the XML and JSON paths raise for text they cannot parse.
BuilderFailures ==
    {"Failed to parse CMMN XML", "Root element must be 'definitions'",
     "Invalid JSON format", "JSON validation failed", "Schema error"}

\* C3: in auto-detection, non-empty text whose trimmed form starts with none
\* of "<", "{", "[" fails with an error of its own (format undetectable)
\* and neither tree builder runs on it.
C3_UndetectableFormatFails ==
    (/\ AutoCall
     /\ Strip(call.args[1]).v # <<>>
     /\ \A c \in {"<", "{", "["} : ~TextStartsWith(Strip(call.args[1]), c))
    => /\ IsRaise(outcome)
       /\ outcome.msg \notin BuilderFailures
       /\ ~Entered("_parse_xml_tree")
       /\ ~Entered("_parse_json_data")

\* C4: empty or whitespace-only text given to parse_string fails with an
\* error of its own (empty content), raised before format detection hands
\* the text to either parser.
C4_EmptyContentFailsFirst ==
    (AutoCall /\ Strip(call.args[1]).v = <<>>)
    => /\ IsRaise(outcome)
       /\ outcome.msg \notin BuilderFailures
       /\ ~Entered("parse_xml_string")
       /\ ~Entered("parse_json_string")

\* C5: parse_string(text, hint) with hint "xml" or "json" uses exactly the
\* named builder whatever the text looks like.
C5_ExplicitHintWins ==
    (pc = "returned" /\ call.op = "parse_string" /\ Len(call.args) = 2)
    => /\ call.args[2] = "xml" =>
             Entered("parse_xml_string") /\ ~Entered("parse_json_string")
       /\ call.args[2] = "json" =>
             Entered("parse_json_string") /\ ~Entered("parse_xml_string")

\* C6: parse_file parses a readable .xml or .cmmn file with the XML builder
\* and a .json file with the JSON builder, whatever the content.
C6_SuffixDecidesFormat ==
    (pc = "returned" /\ call.op = "parse_file" /\ call.args[1].status = "ok")
    => /\ call.args[1].suffix \in {".xml", ".cmmn"} =>
             Entered("parse_xml_string") /\ ~Entered("parse_json_string")
       /\ call.args[1].suffix = ".json" =>
             Entered("parse_json_string") /\ ~Entered("parse_xml_string")

\* The local name of a tag in Clark notation: what follows "{namespace}".
LocalName(tag) ==
    IF Len(tag) > 0 /\ SubSeq(tag, 1, 1) = "{"
    THEN SubSeq(tag, FirstBrace(tag) + 1, Len(tag))
    ELSE tag

\* C7: XMLParser.parse and CMMNParser._parse_xml_tree accept a well-formed
\* document exactly when the local name of its root, namespace stripped, is
\* "definitions"; any other root is rejected and no tree is returned.
C7_RootLocalNameDecides ==
    (OnTree("XMLParser.parse") \/ OnTree("parse_xml_string"))
    => (~IsRaise(outcome)
        <=> LocalName(call.args[1].v[1].body.tag) = "definitions")

\* The class of the exception an entry point raises for a well-formed
\* document whose root is not definitions.
WrongRootClass(op) ==
    IF op = "XMLParser.parse"
    THEN XMLParser_parse(Text(<<XmlTok(RootWrong)>>)).ret.exc
    ELSE CMMNParser_parse_xml_string(Text(<<XmlTok(RootWrong)>>), None).ret.exc

\* The class of the exception parse_file raises for a path that is missing.
FileErrorClass ==
    CMMNParser_parse_file(File("missing", ".xml", Text(<<>>)), None,
                          [schema_file |-> "ok", verdict |-> "valid"]).ret.exc

\* C8: on the XML parse path a malformed text fails with an error of another
\* kind (class) than a well-formed text with a wrong root does, and of
\* another kind than a file that cannot be read does.
C8_FailureKindsDistinct ==
    (/\ pc = "returned"
     /\ call.op \in {"XMLParser.parse", "parse_xml_string"}
     /\ IsRaise(ET_fromstring(call.args[1])))
    => /\ IsRaise(outcome)
       /\ outcome.exc # WrongRootClass(call.op)
       /\ outcome.exc # FileErrorClass

\* Every spelling of "true" that differs from it only in letter case.
TrueSpellings ==
    {a \o b \o c \o d : a \in {"t", "T"}, b \in {"r", "R"},
                        c \in {"u", "U"}, d \in {"e", "E"}}

\* The attribute of the "bool" document is present and spells true.
SpelledTrue(i) == i # 0 /\ BoolSpellings[i] \in TrueSpellings

\* C9: autoComplete on a casePlanModel or stage parses to true exactly when
\* the attribute is present and spells "true" in any letter case; isBlocking
\* on a task parses to true exactly when it is absent or spells "true" in
\* any letter case; the field is a boolean in every case.  Both XML builders.
C9_BooleanAttributes ==
    /\ (OnTree("XMLParser.parse") /\ call.doc[1] = "bool") =>
          LET i == call.doc[2][1]
              cpm == outcome.cases.v[1].case_plan_model
          IN /\ cpm.auto_complete = Bool(SpelledTrue(i))
             /\ Len(cpm.stages.v) = 1
             /\ cpm.stages.v[1].auto_complete = Bool(SpelledTrue(i))
             /\ Len(cpm.tasks.v) = 5
             /\ \A k \in 1..5 :
                   cpm.tasks.v[k].is_blocking = Bool(i = 0 \/ SpelledTrue(i))
    /\ (OnTree("parse_xml_string") /\ call.doc[1] = "bool") =>
          LET i == call.doc[2][1]
              cpm == outcome.cases.v[1].case_plan_model
              stage == cpm.stage_definitions.v[1]
          IN /\ cpm.auto_complete = Bool(SpelledTrue(i))
             /\ Len(cpm.stage_definitions.v) = 1
             /\ stage.auto_complete = Bool(SpelledTrue(i))
             /\ stage.stage_definitions.v[1].auto_complete
                    = Bool(SpelledTrue(i))
             /\ Len(cpm.task_definitions.v) = 3
             /\ \A k \in 1..3 :
                   cpm.task_definitions.v[k].is_blocking
                       = Bool(i = 0 \/ SpelledTrue(i))
             /\ stage.task_definitions.v[1].is_blocking
                    = Bool(i = 0 \/ SpelledTrue(i))

\* Both attributes spelled "tRuE" parse to true.
C9_MixedCaseWitness ==
    /\ OnTree("XMLParser.parse")
    /\ call.doc = <<"bool", <<4>>>>
    /\ outcome.cases.v[1].case_plan_model.auto_complete = Bool(TRUE)
    /\ outcome.cases.v[1].case_plan_model.tasks.v[2].is_blocking = Bool(TRUE)

\* The tokens of each of RefSpellings, written out; index 0 is "absent".
RefTokens ==
    << <<>>, <<"s1">>, <<"s1", "s2">>, <<"s2", "s1">>, <<"s1", "s2">>,
       <<"s1", "s2">>, <<"s1", "s2">>, <<>>, <<"s1", "s2", "s3">> >>

ExpectedRefs(i) == IF i = 0 THEN List(<<>>) ELSE List(Map(RefTokens[i], Str))

\* C10: entryCriteriaRefs, exitCriteriaRefs, targetRefs and
\* authorizedRoleRefs each parse to the list of the attribute's
\* whitespace-separated tokens in order, and to an empty list when the
\* attribute is absent or empty (CMMNParser, which reads these attributes).
C10_ReferenceLists ==
    (OnTree("parse_xml_string") /\ call.doc[1] = "refs") =>
        LET i == call.doc[2][1]
            j == call.doc[2][2]
            cpm == outcome.cases.v[1].case_plan_model
        IN /\ cpm.plan_items.v[1].entry_criteria = ExpectedRefs(i)
           /\ cpm.plan_items.v[1].exit_criteria = ExpectedRefs(j)
           /\ cpm.case_file_items.v[1].target_refs = ExpectedRefs(i)
           /\ cpm.event_definitions.v[1].authorized_role_refs = ExpectedRefs(j)

\* entryCriteriaRefs=" s1 s2 " with exitCriteriaRefs absent.
C10_PaddedListWitness ==
    /\ OnTree("parse_xml_string")
    /\ call.doc = <<"refs", <<6, 0>>>>
    /\ outcome.cases.v[1].case_plan_model.plan_items.v[1].entry_criteria
           = List(<<Str("s1"), Str("s2")>>)
    /\ outcome.cases.v[1].case_plan_model.plan_items.v[1].exit_criteria
           = List(<<>>)

\* A call on one of the sample JSON values.
OnJson(op) == pc # "idle" /\ call.op = op /\ "jdoc" \in DOMAIN call

\* C11: JSONParser.parse given a decoded JSON value that is not an object (a
\* string, a number, a list, a boolean or null) fails with the parsing error
\* "JSON data must be a dictionary" and returns no tree.
C11_NonObjectRejected ==
    (OnJson("JSONParser.parse") /\ call.args[1].t # "dict")
        => outcome = Raise("CMMNParsingError", "JSON data must be a dictionary")

\* JSONParser.parse has refused a list holding one case object.
C11_ListRejectedWitness ==
    /\ OnJson("JSONParser.parse")
    /\ call.args[1].t = "list"
    /\ Len(call.args[1].v) = 1
    /\ IsRaise(outcome)

\* The JSON builder of the call has run: JSONParser.parse always, and
\* CMMNParser.parse_json_string once decoding and validation have passed.
BuilderRan ==
    \/ OnJson("JSONParser.parse")
    \/ OnJson("parse_json_string") /\ Entered("_parse_json_data")

\* C12: parsing {"cases": [{"id": "C1"}]} yields exactly one Case with id
\* "C1" and an absent CasePlanModel without raising, and a key absent from a
\* JSON object never makes the JSON builder raise.
C12_AbsentKeysNeverRaise ==
    /\ (BuilderRan /\ call.jdoc = <<"sparse", <<1>>>>)
          => /\ ~IsRaise(outcome)
             /\ Len(outcome.cases.v) = 1
             /\ outcome.cases.v[1].id = Str("C1")
             /\ outcome.cases.v[1].case_plan_model = None
    /\ (BuilderRan /\ call.jdoc[1] = "sparse") => ~IsRaise(outcome)

\* The one task the builder made of a "task" document.
BuiltTask ==
    IF call.op = "JSONParser.parse"
    THEN outcome.cases.v[1].case_plan_model.tasks.v[1]
    ELSE outcome.cases.v[1].case_plan_model.task_definitions.v[1]

\* The builder has built the tree of a "task" document written in its own
\* dialect.
TaskBuilt ==
    /\ BuilderRan
    /\ call.jdoc[1] = "task"
    /\ call.jdoc[2][1] = (IF call.op = "JSONParser.parse" THEN 1 ELSE 2)
    /\ ~IsRaise(outcome)

\* The task class and the reference field a reference key stands for.
RefClass == <<"HumanTask", "ProcessTask", "CaseTask", "DecisionTask">>

RefFields == <<"performer", "process_ref", "case_ref", "decision_ref">>

\* C13: for a task object without a type / taskType key the JSON builder
\* picks the variant of whichever of performer, processRef, caseRef and
\* decisionRef is present, carrying its value, and HumanTask when none is.
C13_StructuralDiscrimination ==
    (TaskBuilt /\ call.jdoc[2][3] = 0) =>
        LET ri == call.jdoc[2][4]
        IN /\ ri = 0 => BuiltTask.t = "HumanTask"
           /\ \A j \in 1..4 :
                 ri = 2 ^ (j - 1) =>
                    /\ BuiltTask.t = RefClass[j]
                    /\ BuiltTask[RefFields[j]] = Str(RefValues[j])

\* C14: for a task object whose type discriminator names a variant
\* (humanTask, processTask, caseTask, decisionTask) the JSON builder yields
\* that variant whichever of performer, processRef, caseRef and decisionRef
\* are present.
C14_ExplicitTypeOverrides ==
    (TaskBuilt /\ call.jdoc[2][3] \in 1..4)
        => BuiltTask.t = RefClass[call.jdoc[2][3]]

\* Whether an object of class cls occurs anywhere in a value.
RECURSIVE HasClass(_, _)
HasClass(v, cls) ==
    CASE v.t = "list" -> \E i \in DOMAIN v.v : HasClass(v.v[i], cls)
      [] v.t = "dict" -> \E k \in DOMAIN v.v : HasClass(v.v[k], cls)
      [] v.t \in {"str", "bool", "int", "None", "raise"} -> FALSE
      [] OTHER ->
           \/ v.t = cls
           \/ \E f \in DOMAIN v \ {"t"} : HasClass(v[f], cls)

\* C15: the JSON builder returns an ExitCriterion exactly when the criterion
\* object's type equals "exit" and an EntryCriterion in every other case, and
\* no XML or JSON parse of any document produces a ReactivationCriterion.
C15_CriterionVariants ==
    /\ (OnJson("parse_json_string") /\ call.jdoc[1] = "crit"
            /\ ~IsRaise(outcome))
          => LET cs == outcome.cases.v[1].case_plan_model.criteria_definitions.v
                 ci == call.jdoc[2][1]
                 exit == ci # 0 /\ CritTypes[ci] = Str("exit")
             IN /\ Len(cs) = 2
                /\ cs[1].t = (IF exit THEN "ExitCriterion" ELSE "EntryCriterion")
                /\ cs[2].t = "ExitCriterion"
    /\ (pc # "idle" /\ ~IsRaise(outcome))
          => ~HasClass(outcome, "ReactivationCriterion")
    /\ pc = "reparsed" => ~HasClass(reparsed, "ReactivationCriterion")

\* A criterion object of type "reactivation" has been built.
C15_ReactivationTypeWitness ==
    /\ OnJson("parse_json_string")
    /\ call.jdoc[1] = "crit"
    /\ call.jdoc[2][1] # 0
    /\ CritTypes[call.jdoc[2][1]] = Str("reactivation")
    /\ ~IsRaise(outcome)
    /\ Len(outcome.cases.v[1].case_plan_model.criteria_definitions.v) = 2

\* The variant JSONParser reads out of a written task mapping.
WrittenVariant(written) ==
    LET d == GetKey(written, "type", GetKey(written, "taskType", Str("task")))
    IN CASE d = Str("humanTask") -> "HumanTask"
         [] d = Str("processTask") -> "ProcessTask"
         [] d = Str("caseTask") -> "CaseTask"
         [] d = Str("decisionTask") -> "DecisionTask"
         [] OTHER -> "Task"

\* The variant-specific reference of a task; a generic Task has none.
RefOf(task) ==
    CASE task.t = "HumanTask" -> task.performer
      [] task.t = "ProcessTask" -> task.process_ref
      [] task.t = "CaseTask" -> task.case_ref
      [] task.t = "DecisionTask" -> task.decision_ref
      [] OTHER -> None

\* C16: for every task of a tree built by XMLParser or JSONParser, to_dict
\* writes a type / taskType discriminator naming the task's class, and
\* JSONParser.parse of the mapping rebuilds the task as the same class with
\* the same variant-specific reference.
C16_TaskVariantSurvives ==
    pc = "reparsed" =>
        \A c \in DOMAIN outcome.cases.v :
            LET cpm == outcome.cases.v[c].case_plan_model
            IN cpm # None =>
                 \A i \in DOMAIN cpm.tasks.v :
                    LET task == cpm.tasks.v[i]
                        written ==
                            mapping.v["cases"].v[c].v["casePlanModel"]
                                   .v["tasks"].v[i]
                        rebuilt ==
                            reparsed.cases.v[c].case_plan_model.tasks.v[i]
                    IN /\ WrittenVariant(written) = task.t
                       /\ rebuilt.t = task.t
                       /\ RefOf(rebuilt) = RefOf(task)

\* A DecisionTask built by JSONParser has gone through the round trip.
C16_DecisionTaskWitness ==
    /\ pc = "reparsed"
    /\ OnJson("JSONParser.parse")
    /\ call.jdoc[1] = "task"
    /\ outcome.cases.v[1].case_plan_model.tasks.v[1].t = "DecisionTask"
    /\ outcome.cases.v[1].case_plan_model.tasks.v[1].decision_ref = Str("d1")

OnValidator(op) == pc = "returned" /\ call.op = op /\ "vdoc" \in DOMAIN call

\* C18: a document holding a case object without the id key is rejected by
\* CMMNValidator.validate_json with a validation error whose message names
\* the missing field; validation never returns True for it.
C18_MissingIdRejected ==
    (OnValidator("CMMNValidator.validate_json") /\ call.vdoc[1] = "noid")
        => /\ outcome # Bool(TRUE)
           /\ IsRaise(outcome)
           /\ outcome.exc = "CMMNValidationError"
           /\ outcome.msg = "JSON validation failed: 'id' is a required property"

\* The keys the schema lists for the top-level object.
DefinitionsKeys ==
    {"id", "name", "targetNamespace", "expressionLanguage", "exporter",
     "exporterVersion", "author", "creationDate", "imports",
     "caseFileItemDefinitions", "cases", "processes", "decisions",
     "extensionElements"}

\* C19: CMMNValidator.validate_json rejects every document that has a
\* top-level key outside the definitions keys, and accepts arbitrary keys
\* and nesting inside the extensionElements object.
C19_ClosedTopOpenExtensions ==
    OnValidator("CMMNValidator.validate_json") =>
        /\ (call.args[1].t = "dict"
                /\ ~(DOMAIN call.args[1].v \subseteq DefinitionsKeys))
              => (IsRaise(outcome) /\ outcome.exc = "CMMNValidationError")
        /\ call.vdoc[1] = "ext" => outcome = Bool(TRUE)

\* A document whose extensionElements nest objects inside a list inside
\* objects has been accepted.
C19_NestedExtensionWitness ==
    /\ OnValidator("CMMNValidator.validate_json")
    /\ call.vdoc = <<"ext", <<4>>>>
    /\ call.args[1].v["extensionElements"].v["vendor"].v["deep"].t = "list"
    /\ outcome = Bool(TRUE)

\* C20: get_validation_errors never raises, whatever the input and the
\* environment: it returns the empty list exactly when validate_cmmn_json
\* would return True, and otherwise a non-empty list of strings.
C20_CollectNeverRaises ==
    (pc = "returned" /\ call.op = "get_validation_errors")
        => /\ ~IsRaise(outcome)
           /\ outcome.t = "list"
           /\ (outcome.v = <<>>)
                 <=> (validate_cmmn_json(call.args[1], call.env) = Bool(TRUE))
           /\ \A i \in DOMAIN outcome.v : outcome.v[i].t = "str"

\* The error types the library defines for its callers.
LibraryErrors == {"CMMNParseError", "CMMNParsingError"}

\* The entry points that take a text or a path.
TextEntryPoints ==
    {"parse_file", "parse_json_file", "parse_string", "parse_json_string",
     "XMLParser.parse"}

\* C21: whatever fails inside parse_file, parse_json_file, parse_string,
\* parse_json_string or XMLParser.parse reaches the caller as the library's
\* own error type; no KeyError, TypeError, FileNotFoundError or decoder
\* exception escapes from a call made with the arguments the signature takes.
C21_OnlyLibraryErrorsEscape ==
    (/\ pc = "returned"
     /\ call.op \in TextEntryPoints
     /\ Len(call.args) = 1
     /\ IsRaise(outcome))
    => outcome.exc \in LibraryErrors

\* The assignments made so far to the cache field an operation uses.
WritesTo(op) == {i \in DOMAIN trace : trace[i].op = op}

\* C22: on one instance the schema document is loaded at most once: the
\* cache field of an operation is assigned at most once, whatever the number
\* of calls and however the calls of concurrent callers interleave.
C22_SchemaLoadedOnce ==
    \A op \in ValidateOps : Cardinality(WritesTo(op)) <= 1

\* The ids of a caseFileItem hierarchy of the given shape, as a tree.
RECURSIVE ExpectedItems(_, _)
ExpectedItems(shape, id) ==
    [id |-> id,
     children |-> [k \in 1..Len(shape) |->
                     ExpectedItems(shape[k], id \o Digits[k])]]

\* The ids of a parsed CaseFileItem and of its descendants, as a tree.
RECURSIVE ItemTree(_)
ItemTree(item) ==
    [id |-> item.id.v,
     children |-> [k \in 1..Len(item.children.v) |->
                     ItemTree(item.children.v[k])]]

RECURSIVE DepthOf(_)
DepthOf(tree) ==
    LET below == {DepthOf(tree.children[k]) : k \in DOMAIN tree.children}
    IN 1 + (IF below = {} THEN 0
            ELSE CHOOSE d \in below : \A e \in below : e <= d)

\* The tree a CMMNParser call built from a document of the cfi family.
CaseFileItemsBuilt ==
    /\ pc = "returned"
    /\ call.op \in {"parse_xml_string", "parse_json_string"}
    /\ (("doc" \in DOMAIN call /\ call.doc[1] = "cfi")
        \/ ("jdoc" \in DOMAIN call /\ call.jdoc[1] = "cfi"))
    /\ ~IsRaise(outcome)

ShapeOfCall == Shape(IF "doc" \in DOMAIN call THEN call.doc[2][1]
                     ELSE call.jdoc[2][1])

\* C23: a caseFileItem hierarchy nested to depth n parses, from XML child
\* elements and from the JSON children key alike, to a CaseFileItem tree of
\* exactly depth n whose children lists keep document order, with no item
\* dropped or duplicated.
C23_NestedCaseFileItems ==
    CaseFileItemsBuilt =>
        LET items == outcome.cases.v[1].case_file_model.case_file_items.v
        IN /\ Len(items) = 2
           /\ ItemTree(items[1]) = ExpectedItems(ShapeOfCall, "i")
           /\ \A n \in 1..MaxDepth :
                 ShapeOfCall = Chain(n) => DepthOf(ItemTree(items[1])) = n
           /\ ItemTree(items[2]) = ExpectedItems(<<>>, "z")

\* A hierarchy three levels deep with siblings on two levels has been built
\* from JSON.
C23_DepthThreeWitness ==
    /\ CaseFileItemsBuilt
    /\ call.op = "parse_json_string"
    /\ ShapeOfCall = << << <<>>, <<>> >>, <<>> >>
    /\ DepthOf(ItemTree(
          outcome.cases.v[1].case_file_model.case_file_items.v[1])) = 3

\* The Stage built for stage_elem holds, in its definition buckets, what
\* _parse_case_plan_model collects from the same children, and so does every
\* stage nested in it.
RECURSIVE BucketsAsForPlanModel(_, _)
BucketsAsForPlanModel(stage_elem, stage) ==
    LET as_plan_model == CMMNParser_parse_case_plan_model(stage_elem)
        nested == FindAll(stage_elem, "stage")
    IN /\ stage.task_definitions = as_plan_model.task_definitions
       /\ stage.event_definitions = as_plan_model.event_definitions
       /\ stage.milestone_definitions = as_plan_model.milestone_definitions
       /\ stage.criteria_definitions = as_plan_model.criteria_definitions
       /\ Len(stage.stage_definitions.v) = Len(nested)
       /\ \A k \in DOMAIN nested :
             BucketsAsForPlanModel(nested[k], stage.stage_definitions.v[k])

\* C24: in CMMNParser's XML walk, every task, event listener, milestone,
\* nested stage and criterion child of a stage nested at any depth in a
\* casePlanModel is parsed into the corresponding bucket of that Stage,
\* exactly as for the casePlanModel itself.
C24_NestedStageBuckets ==
    (OnTree("parse_xml_string") /\ pc = "returned" /\ ~IsRaise(outcome)) =>
        LET case_elems == FindAll(call.args[1].v[1].body, "case")
        IN \A c \in DOMAIN case_elems :
              LET plan_model_elem == Find(case_elems[c], "casePlanModel")
              IN plan_model_elem # None =>
                    BucketsAsForPlanModel(plan_model_elem,
                                          outcome.cases.v[c].case_plan_model)

\* The stage nested d deep below the plan model or stage `parent`, reached
\* through its field of nested stages; None when a level is missing.
RECURSIVE StageAt(_, _, _)
StageAt(parent, d, nest_field) ==
    IF nest_field \notin DOMAIN parent \/ parent[nest_field].v = <<>>
    THEN None
    ELSE IF d <= 1 THEN parent[nest_field].v[1]
         ELSE StageAt(parent[nest_field].v[1], d - 1, nest_field)

\* C25: for a stage object at any nesting depth the JSON builder builds its
\* planItems, sentries, nested stages and its five definition buckets into
\* the Stage, recursively; no member present in the input is dropped.
C25_StageMembersBuilt ==
    (/\ pc # "idle"
     /\ "jdoc" \in DOMAIN call
     /\ call.jdoc[1] = "stage"
     /\ call.op \in {"JSONParser.parse", "parse_json_string"}
     /\ (call.op = "JSONParser.parse") <=> (call.jdoc[2][1] = 1)
     /\ pc \in {"parsed", "returned"}
     /\ ~IsRaise(outcome))
    => LET nest_field ==
               IF call.jdoc[2][1] = 1 THEN "stages" ELSE "stage_definitions"
           stage == StageAt(outcome.cases.v[1].case_plan_model,
                            call.jdoc[2][2], nest_field)
           member == StageMemberFields[call.jdoc[2][3]]
       IN /\ stage # None
          /\ member \in DOMAIN stage
          /\ Len(stage[member].v) = 1
          /\ stage[member].v[1].id = Str("X1")

\* The children of extensionElements in a document of the ext family.
VendorChildren == [i \in DOMAIN call.doc[2] |-> ExtElems[call.doc[2][i]]]

\* XMLParser.parse has returned the tree of a document of the ext family.
ExtensionsParsed ==
    /\ OnTree("XMLParser.parse")
    /\ call.doc[1] = "ext"
    /\ ~IsRaise(outcome)
    /\ outcome.extension_elements # None

\* d is the dictionary the claim describes for element: a key per attribute
\* holding its value, "text" holding the stripped text exactly when the text
\* is non-blank, and the child elements grouped by local tag into lists of
\* such dictionaries in sibling order.
RECURSIVE ConvertedAsDescribed(_, _)
ConvertedAsDescribed(element, d) ==
    LET has_text == element.text # None /\ StrStrip(element.text.v) # ""
        tags == {LocalName(element.children[i].tag) :
                    i \in DOMAIN element.children}
    IN /\ d.t = "dict"
       /\ \A a \in DOMAIN element.attrib :
             a \in DOMAIN d.v /\ d.v[a] = Str(element.attrib[a])
       /\ has_text => ("text" \in DOMAIN d.v
                       /\ d.v["text"] = Str(StrStrip(element.text.v)))
       /\ (~has_text /\ "text" \notin DOMAIN element.attrib)
             => "text" \notin DOMAIN d.v
       /\ tags # {} =>
             /\ "children" \in DOMAIN d.v
             /\ d.v["children"].t = "dict"
             /\ DOMAIN d.v["children"].v = tags
             /\ \A tag \in tags :
                   LET kids == SelectSeq(element.children,
                                         LAMBDA c : LocalName(c.tag) = tag)
                       converted == d.v["children"].v[tag]
                   IN /\ converted.t = "list"
                      /\ Len(converted.v) = Len(kids)
                      /\ \A k \in DOMAIN kids :
                            ConvertedAsDescribed(kids[k], converted.v[k])

\* C26: _element_to_dict maps every attribute of an extension element to a
\* key holding that attribute's value, sets "text" to the stripped text
\* exactly when the text is non-blank, and groups the child elements by
\* local tag into lists of recursively converted dictionaries in sibling
\* order, at any depth.
C26_ElementToDict ==
    ExtensionsParsed =>
        \A i \in DOMAIN VendorChildren :
            LET tag == LocalName(VendorChildren[i].tag)
                elements == outcome.extension_elements.elements.v
            IN (\A j \in DOMAIN VendorChildren :
                    LocalName(VendorChildren[j].tag) = tag => j <= i)
               => ConvertedAsDescribed(VendorChildren[i], elements[tag])

\* C30: _parse_extension_elements loses no vendor extension: every direct
\* child of extensionElements is represented in the resulting mapping, by
\* its conversion under its tag or in a list under its tag, also when
\* several direct children share a tag name.
C30_NoExtensionLost ==
    ExtensionsParsed =>
        \A i \in DOMAIN VendorChildren :
            LET tag == LocalName(VendorChildren[i].tag)
                elements == outcome.extension_elements.elements.v
                converted == XMLParser_element_to_dict(VendorChildren[i])
            IN /\ tag \in DOMAIN elements
               /\ \/ elements[tag] = converted
                  \/ /\ elements[tag].t = "list"
                     /\ \E k \in DOMAIN elements[tag].v :
                           elements[tag].v[k] = converted

\* f was entered before g in the finished call.
EnteredBefore(f, g) ==
    \E i, j \in DOMAIN trace : i < j /\ trace[i] = f /\ trace[j] = g

IdsOf(bucket) == [k \in DOMAIN bucket.v |-> bucket.v[k].id]

\* The children of an element with one of the given local names of the CMMN
\* namespace, in document order.
InDocumentOrder(element, locals) ==
    SelectSeq(element.children, LAMBDA c : c.tag \in {Q(l) : l \in locals})

\* The JSON object equivalent to a task or event listener element: its
\* attributes under the same names.
EquivalentObject(element) ==
    Dict([a \in DOMAIN element.attrib |-> Str(element.attrib[a])])

\* C28: the task and event buckets CMMNParser builds from XML list the
\* elements in document order, so that the XML builder yields the bucket
\* order the JSON builder yields for the equivalent taskDefinitions /
\* eventDefinitions array.
C28_BucketOrder ==
    (OnTree("parse_xml_string") /\ pc = "returned" /\ call.doc[1] = "cpm"
        /\ ~IsRaise(outcome))
    => LET plan_model_elem ==
               Find(Find(call.args[1].v[1].body, "case"), "casePlanModel")
           plan_model == outcome.cases.v[1].case_plan_model
           task_elems == InDocumentOrder(plan_model_elem,
                             {"humanTask", "processTask", "caseTask"})
           event_elems == InDocumentOrder(plan_model_elem,
                             {"timerEventListener", "userEventListener"})
           from_json ==
               CMMNParser_parse_json_case_plan_model(
                   JObj(<< <<"id", Str("CPM")>>,
                           <<"taskDefinitions",
                             List(Map(task_elems, EquivalentObject))>>,
                           <<"eventDefinitions",
                             List(Map(event_elems, EquivalentObject))>> >>))
       IN /\ IdsOf(plan_model.task_definitions)
                = [k \in DOMAIN task_elems |-> Get(task_elems[k], "id", Str(""))]
          /\ IdsOf(plan_model.event_definitions)
                = [k \in DOMAIN event_elems |-> Get(event_elems[k], "id", Str(""))]
          /\ ~IsRaise(from_json)
          /\ IdsOf(plan_model.task_definitions)
                = IdsOf(from_json.task_definitions)
          /\ IdsOf(plan_model.event_definitions)
                = IdsOf(from_json.event_definitions)

\* C29: the mapping to_dict produces from any tree XMLParser.parse or
\* JSONParser.parse returned passes CMMNValidator.validate_json, absent
\* optional scalar fields included.
C29_DumpValidates ==
    pc = "validated" => reparsed = Bool(TRUE)

====
